---------------------------- MODULE Spec2Model ----------------------------
(***************************************************************************)
(* Model of the gravity engine of Musical-Solar-System:                    *)
(*   backend/body.py    PhysicsBody                                        *)
(*   backend/system.py  System (_compute_gravity, step, sample_positions)  *)
(*   backend/physics.py _build_initial_bodies (metadata of the bodies)     *)
(*                      period_days                                        *)
(*   backend/music/     events_for_system and the functions it is built of *)
(*                                                                         *)
(* Numbers.  The code computes in IEEE doubles.  Here a coordinate, a      *)
(* velocity, a force and a mass are integers, and every division rounds    *)
(* toward zero (TDiv), which stands for the rounding of the float          *)
(* division.  Durations, rates and sample times are exact rationals        *)
(* <<numerator, denominator>> with a positive denominator.  Comparisons of *)
(* a distance with 0 or with the cutoff are made on the squared distance,  *)
(* so they are exact.                                                      *)
(*                                                                         *)
(* Objects.  A body's position, velocity and force arrays and its metadata *)
(* dict are held by value in the body's record; copying them is copying    *)
(* the value.  A mutable value stored INSIDE a metadata dict (the          *)
(* "position" list a planet configuration may carry) is held by reference: *)
(* the dict stores a key of `heap`, and dict(...) copies that key, not the *)
(* list.                                                                   *)
(***************************************************************************)
EXTENDS Integers, Sequences, FiniteSets, TLC

VARIABLES
    bodies,      \* System.bodies: the ordered list of PhysicsBody records
    heap,        \* the mutable lists stored inside metadata dicts, by reference
    qtClosed,    \* whether QuadTree.query includes the points on the max edges
    stepsTaken,  \* the number of direct step() calls made so far
    mutations,   \* the number of writes a caller made into live body state
    last,        \* the last call: what it was given, what it came back with
    request,     \* the system configuration handed to samples_for_system
    response,    \* what samples_for_system came back with
    unsampled,   \* the bodies of a System given the same step() calls and no other
    call         \* the last call of a function of backend/music or of period_days

vars == <<bodies, heap, qtClosed, stepsTaken, mutations, last, request, response,
          unsampled, call>>

---------------------------------------------------------------------------
(* Bounds of the model *)

\* direct step() calls in one behaviour
MaxSteps == 2
\* bodies of a System
MaxBodies == 3
\* sample rates are n Hz for n in 0 .. MaxRate
MaxRate == 2
\* writes of a caller into live body state in one behaviour
MaxMutations == 1
\* bodies of a System whose caller writes into live body state
MaxMutatedBodies == 2
\* semi-major axes are tried up to the square of MaxAxisRoot hundredths of an AU
MaxAxisRoot == 34
\* samples of a request whose events are generated
MaxSamples == 7
\* the largest max_order get_note_from_order is called with
MaxOrderTried == 36
\* the points of an envelope that is downsampled
MaxEnvelope == 6

---------------------------------------------------------------------------
(* Arithmetic *)

Max(a, b) == IF a >= b THEN a ELSE b

\* a / b for b > 0, rounded toward zero
TDiv(a, b) == IF a >= 0 THEN a \div b ELSE -((-a) \div b)

\* the largest r in lo..hi with r * r <= n, found by halving the interval
RECURSIVE RootBetween(_, _, _)
RootBetween(n, lo, hi) ==
    IF lo >= hi
    THEN lo
    ELSE IF ((lo + hi + 1) \div 2) * ((lo + hi + 1) \div 2) <= n
    THEN RootBetween(n, (lo + hi + 1) \div 2, hi)
    ELSE RootBetween(n, lo, ((lo + hi + 1) \div 2) - 1)

\* the integer part of the square root of n >= 0; 46340 is the largest root
\* of a number the model checker can hold
ISqrt(n) == RootBetween(n, 0, IF n < 46340 THEN n ELSE 46340)

Zero3 == <<0, 0, 0>>

VAdd(u, v) == <<u[1] + v[1], u[2] + v[2], u[3] + v[3]>>

VSub(u, v) == <<u[1] - v[1], u[2] - v[2], u[3] - v[3]>>

VNeg(u) == <<-u[1], -u[2], -u[3]>>

\* v * (n / d), componentwise
VMulRat(v, q) == <<TDiv(v[1] * q[1], q[2]), TDiv(v[2] * q[1], q[2]), TDiv(v[3] * q[1], q[2])>>

\* v / k, componentwise
VDivInt(v, k) == <<TDiv(v[1], k), TDiv(v[2], k), TDiv(v[3], k)>>

\* the square of np.linalg.norm(v)
NormSq(v) == v[1] * v[1] + v[2] * v[2] + v[3] * v[3]

(* Rationals <<n, d>>, d > 0 *)
RatLeqZero(q) == q[1] <= 0

RatMul(p, q) == <<p[1] * q[1], p[2] * q[2]>>

RatEq(p, q) == p[1] * q[2] = q[1] * p[2]

\* math.ceil of a rational
RatCeil(q) == -((-q[1]) \div q[2])

---------------------------------------------------------------------------
(* backend/body.py: PhysicsBody *)

\* PhysicsBody.reset_force
reset_force(b) == [b EXCEPT !.force = Zero3]

\* PhysicsBody.apply_force
apply_force(b, f) == [b EXCEPT !.force = VAdd(@, f)]

\* acceleration without the mass check: the division yields no exception
acceleration_unchecked(b) ==
    [raised |-> FALSE,
     value |-> IF b.mass = 0 THEN Zero3 ELSE VDivInt(b.force, b.mass)]

\* PhysicsBody.acceleration: raises ZeroDivisionError when the mass is 0
acceleration(b) ==
    IF b.mass = 0
    THEN [raised |-> TRUE, value |-> Zero3]
    ELSE [raised |-> FALSE, value |-> VDivInt(b.force, b.mass)]

\* integrate with the position advanced by the velocity before its update
AdvanceOldVelocity(b, a, dt) ==
    [b EXCEPT !.velocity = VAdd(b.velocity, VMulRat(a, dt)),
              !.position = VAdd(b.position, VMulRat(b.velocity, dt))]

\* the two statements of integrate, given the acceleration a
Advance(b, a, dt) ==
    LET v == VAdd(b.velocity, VMulRat(a, dt))
    IN  [b EXCEPT !.velocity = v, !.position = VAdd(b.position, VMulRat(v, dt))]

\* PhysicsBody.integrate: velocity first, then position with the new velocity.
\* acceleration() is evaluated before velocity is written, so a raise leaves
\* the body as it was.
integrate(b, dt) ==
    LET a == acceleration(b)
    IN  IF a.raised
        THEN [raised |-> TRUE, body |-> b]
        ELSE [raised |-> FALSE, body |-> Advance(b, a.value, dt)]

---------------------------------------------------------------------------
(* backend/system.py: System._compute_gravity *)

\* System.gravitational_constant, in the model's units
gravitational_constant == 1

\* CULL_DISTANCE_AU
CULL_DISTANCE_AU == 1

Indices(s) == [i \in 1..Len(s) |-> i]

IsStar(b) == b.metadata.kind = "star"

\* the indices (into bs) of the bodies whose kind is star, in list order
stars(bs) == SelectSeq(Indices(bs), LAMBDA i : IsStar(bs[i]))

\* the indices (into bs) of the other bodies, in list order
non_stars(bs) == SelectSeq(Indices(bs), LAMBDA i : ~IsStar(bs[i]))

\* apply_force_pair returns early on a pair at distance 0
Collocated(bs, pair) ==
    NormSq(VSub(bs[pair[2]].position, bs[pair[1]].position)) = 0

\* force = magnitude * direction, for the offset between two bodies
ForceAlong(offset, distSq, m1, m2) ==
    LET distance  == ISqrt(distSq)
        magnitude == TDiv(gravitational_constant * m1 * m2, distSq)
    IN  VDivInt(<<magnitude * offset[1], magnitude * offset[2], magnitude * offset[3]>>,
                distance)

\* the force apply_force_pair adds to the primary; the secondary gets its negation
PairForce(primary, secondary) ==
    LET offset == VSub(secondary.position, primary.position)
    IN  ForceAlong(offset, NormSq(offset), primary.mass, secondary.mass)

\* the pair force added to both bodies with the same sign
ApplyBothSameSign(bs, pair, force) ==
    [bs EXCEPT ![pair[1]] = apply_force(@, force),
               ![pair[2]] = apply_force(@, force)]

\* primary.apply_force(force); secondary.apply_force(-force)
ApplyBoth(bs, pair, force) ==
    [bs EXCEPT ![pair[1]] = apply_force(@, force),
               ![pair[2]] = apply_force(@, VNeg(force))]

\* apply_force_pair without the distance == 0 guard: the division by a zero
\* distance yields an undefined force, shown here as <<-1, -1, -1>>
apply_force_pair_unguarded(bs, pair) ==
    ApplyBoth(bs, pair, IF Collocated(bs, pair)
                        THEN <<-1, -1, -1>>
                        ELSE PairForce(bs[pair[1]], bs[pair[2]]))

\* apply_force_pair(primary, secondary) on the bodies at indices pair[1], pair[2]
apply_force_pair(bs, pair) ==
    IF Collocated(bs, pair)
    THEN bs
    ELSE ApplyBoth(bs, pair, PairForce(bs[pair[1]], bs[pair[2]]))

\* all <<s[i], t[j]>>, i outer and j inner, as the nested for loops visit them
Product(s, t) ==
    [k \in 1..(Len(s) * Len(t)) |->
        <<s[((k - 1) \div Len(t)) + 1], t[((k - 1) % Len(t)) + 1]>>]

\* the calls apply_force_pair(star, other) of the star loop
StarPairs(bs) == Product(stars(bs), non_stars(bs))

MinOf(S) == CHOOSE x \in S : \A y \in S : x <= y

MaxOf(S) == CHOOSE x \in S : \A y \in S : x >= y

\* min and max of one coordinate, moved apart by the padding when they are equal
Widened(lo, hi, padding) ==
    IF lo = hi THEN <<lo - padding, hi + padding>> ELSE <<lo, hi>>

\* qt_bounds from the widened extents of xs and ys
PaddedBox(wx, wy, padding) ==
    <<wx[1] - padding, wy[1] - padding, wx[2] + padding, wy[2] + padding>>

\* qt_bounds: the box of the non-star bodies ns, widened where it is flat, padded
QtBounds(bs, ns) ==
    LET xs == {bs[ns[k]].position[1] : k \in 1..Len(ns)}
        ys == {bs[ns[k]].position[2] : k \in 1..Len(ns)}
    IN  PaddedBox(Widened(MinOf(xs), MaxOf(xs), CULL_DISTANCE_AU),
                  Widened(MinOf(ys), MaxOf(ys), CULL_DISTANCE_AU),
                  CULL_DISTANCE_AU)

\* a point lies in a rectangle (min_x, min_y, max_x, max_y); closed tells
\* whether the library counts the points on the max edges as inside
InRect(x, y, rect, closed) ==
    /\ rect[1] <= x
    /\ rect[2] <= y
    /\ IF closed THEN x <= rect[3] ELSE x < rect[3]
    /\ IF closed THEN y <= rect[4] ELSE y < rect[4]

\* query_rect around the point (x, y)
QueryRect(x, y) ==
    <<x - CULL_DISTANCE_AU, y - CULL_DISTANCE_AU,
      x + CULL_DISTANCE_AU, y + CULL_DISTANCE_AU>>

\* quadtree.insert of every non-star body, then quadtree.query(query_rect) around
\* the non-star body number idx: is the point number cand among the candidates?
\* The id of a point is its rank in non_stars (the library numbers insertions).
IsCandidate(at, to, bounds, closed) ==
    /\ InRect(to[1], to[2], bounds, closed)
    /\ InRect(to[1], to[2], QueryRect(at[1], at[2]), closed)

\* the filter without the ordering test: a candidate is taken from either side
AcceptCandidateUnordered(idx, cand, dx, dy) ==
    ~(dx * dx + dy * dy > CULL_DISTANCE_AU * CULL_DISTANCE_AU \/ dx * dx + dy * dy = 0)

\* the filter of the candidate loop: each pair once, math.hypot(dx, dy) in (0, cutoff]
AcceptCandidate(idx, cand, dx, dy) ==
    /\ ~(cand <= idx)
    /\ ~(dx * dx + dy * dy > CULL_DISTANCE_AU * CULL_DISTANCE_AU \/ dx * dx + dy * dy = 0)

\* does the quadtree loop call apply_force_pair for the non-stars number idx, cand?
CulledHit(bs, ns, idx, cand, bounds, closed) ==
    /\ IsCandidate(bs[ns[idx]].position, bs[ns[cand]].position, bounds, closed)
    /\ AcceptCandidate(idx, cand,
                       bs[ns[cand]].position[1] - bs[ns[idx]].position[1],
                       bs[ns[cand]].position[2] - bs[ns[idx]].position[2])

\* ranks in ns to indices in the body list
ToBodies(ns, hits) == [k \in 1..Len(hits) |-> <<ns[hits[k][1]], ns[hits[k][2]]>>]

\* the quadtree loop over the non-star bodies ns (at least two)
CulledAmong(bs, ns, bounds, closed) ==
    ToBodies(ns, SelectSeq(Product(Indices(ns), Indices(ns)),
                           LAMBDA p : CulledHit(bs, ns, p[1], p[2], bounds, closed)))

\* the calls apply_force_pair(body, other) of the quadtree loop
CulledPairs(bs, ns, closed) ==
    IF Len(ns) < 2
    THEN <<>>
    ELSE CulledAmong(bs, ns, QtBounds(bs, ns), closed)

\* every call of apply_force_pair in one _compute_gravity, in order
GravityCalls(bs, closed) == StarPairs(bs) \o CulledPairs(bs, non_stars(bs), closed)

\* _compute_gravity without the reset loop
ResetForcesSkipped(bs) == bs

ResetForces(bs) == [i \in 1..Len(bs) |-> reset_force(bs[i])]

RECURSIVE ApplyPairs(_, _, _)
ApplyPairs(bs, pairs, k) ==
    IF k > Len(pairs)
    THEN bs
    ELSE ApplyPairs(apply_force_pair(bs, pairs[k]), pairs, k + 1)

\* _compute_gravity given the calls it makes: bodies is the list afterwards;
\* seen and applied record the list it was given and the calls that got past
\* the distance == 0 guard and added a force
GravityResult(bs, calls) ==
    [bodies  |-> ApplyPairs(ResetForces(bs), calls, 1),
     seen    |-> bs,
     applied |-> SelectSeq(calls, LAMBDA p : ~Collocated(bs, p))]

\* System._compute_gravity
compute_gravity(bs, closed) == GravityResult(bs, GravityCalls(bs, closed))

---------------------------------------------------------------------------
(* backend/system.py: System.step *)

\* the loop `for body in self.bodies: body.integrate(dt)` from index i on; a
\* raise leaves the bodies before it advanced and the others as they were
RECURSIVE IntegrateFrom(_, _, _)
RECURSIVE IntegrateNext(_, _, _, _)
IntegrateNext(bs, i, dt, r) ==
    IF r.raised
    THEN [raised |-> TRUE, bodies |-> bs]
    ELSE IntegrateFrom([bs EXCEPT ![i] = r.body], i + 1, dt)

IntegrateFrom(bs, i, dt) ==
    IF i > Len(bs)
    THEN [raised |-> FALSE, bodies |-> bs]
    ELSE IntegrateNext(bs, i, dt, integrate(bs[i], dt))

\* what step hands back: whether it raised, the bodies, and the record of its
\* _compute_gravity call
StepResult(r, g) ==
    [raised |-> r.raised, bodies |-> r.bodies,
     grav |-> <<[bodies |-> g.seen, applied |-> g.applied]>>]

\* a step that undoes its integrate calls when one of them raises
StepIntegrateAtomic(g, dt) ==
    LET r == IntegrateFrom(g.bodies, 1, dt)
    IN  StepResult([raised |-> r.raised,
                    bodies |-> IF r.raised THEN g.bodies ELSE r.bodies], g)

\* the integrate loop after _compute_gravity
StepIntegrate(g, dt) == StepResult(IntegrateFrom(g.bodies, 1, dt), g)

\* System.step(dt)
step(bs, dt, closed) ==
    IF bs = <<>>
    THEN [raised |-> FALSE, bodies |-> bs, grav |-> <<>>]
    ELSE StepIntegrate(compute_gravity(bs, closed), dt)

---------------------------------------------------------------------------
(* backend/system.py: System.sample_positions *)

\* the two argument checks, in the order the code makes them
ArgumentsValid(duration_seconds, sample_rate_hz) ==
    /\ ~RatLeqZero(sample_rate_hz)
    /\ ~RatLeqZero(duration_seconds)

\* dt = 1.0 / sample_rate_hz
SampleDt(sample_rate_hz) == <<sample_rate_hz[2], sample_rate_hz[1]>>

\* steps with the product rounded down
StepCountFloor(duration_seconds, sample_rate_hz) ==
    Max(1, (duration_seconds[1] * sample_rate_hz[1]) \div (duration_seconds[2] * sample_rate_hz[2]))

\* steps = max(1, math.ceil(duration_seconds * sample_rate_hz))
StepCount(duration_seconds, sample_rate_hz) ==
    Max(1, RatCeil(RatMul(duration_seconds, sample_rate_hz)))

\* the time of the step before
SampleTimeBehind(idx, dt) == <<(idx - 1) * dt[1], dt[2]>>

\* idx * dt
SampleTime(idx, dt) == <<idx * dt[1], dt[2]>>

\* preserved_state: a copy of every body's position and velocity
PreservedState(bs) ==
    [i \in 1..Len(bs) |-> [position |-> bs[i].position, velocity |-> bs[i].velocity]]

\* capture_sample(t): per body the name, a copy of the position and dict(metadata),
\* which copies the keys and the values of the dict, a reference as a reference
capture_sample(bs, t) ==
    [t |-> t,
     bodies |-> [i \in 1..Len(bs) |->
                    [name |-> bs[i].name,
                     position |-> bs[i].position,
                     metadata |-> bs[i].metadata]]]

\* the for loop of the try block, from step idx on
RECURSIVE SampleLoop(_, _, _, _, _, _, _)
RECURSIVE SampleLoopNext(_, _, _, _, _, _, _)
SampleLoopNext(r, idx, steps, dt, samples, grav, closed) ==
    IF r.raised
    THEN [raised |-> TRUE, bodies |-> r.bodies, samples |-> samples,
          grav |-> grav \o r.grav]
    ELSE SampleLoop(r.bodies, idx + 1, steps, dt,
                    Append(samples, capture_sample(r.bodies, SampleTime(idx, dt))),
                    grav \o r.grav, closed)

SampleLoop(bs, idx, steps, dt, samples, grav, closed) ==
    IF idx > steps
    THEN [raised |-> FALSE, bodies |-> bs, samples |-> samples, grav |-> grav]
    ELSE SampleLoopNext(step(bs, dt, closed), idx, steps, dt, samples, grav, closed)

\* a finally block without reset_force
RestoreKeepingForce(bs, preserved) ==
    [i \in 1..Len(bs) |-> [bs[i] EXCEPT !.position = preserved[i].position,
                                        !.velocity = preserved[i].velocity]]

\* a finally block that puts back the positions only
RestorePositionOnly(bs, preserved) ==
    [i \in 1..Len(bs) |-> reset_force([bs[i] EXCEPT !.position = preserved[i].position])]

\* the finally block
Restore(bs, preserved) ==
    [i \in 1..Len(bs) |->
        reset_force([bs[i] EXCEPT !.position = preserved[i].position,
                                  !.velocity = preserved[i].velocity])]

\* how sample_positions ends once the loop has run: the finally block, then the
\* return of the list or the exception on its way out
SampleFinish(run, preserved) ==
    [result  |-> IF run.raised THEN "ZeroDivisionError" ELSE "ok",
     samples |-> IF run.raised THEN <<>> ELSE run.samples,
     bodies  |-> Restore(run.bodies, preserved),
     grav    |-> run.grav]

\* the body of sample_positions once the arguments are accepted and bodies exist
SampleBodies(bs, duration_seconds, sample_rate_hz, closed) ==
    SampleFinish(SampleLoop(bs, 1, StepCount(duration_seconds, sample_rate_hz),
                            SampleDt(sample_rate_hz),
                            <<capture_sample(bs, <<0, 1>>)>>, <<>>, closed),
                 PreservedState(bs))

\* sample_positions with the empty-System return before the argument checks
sample_positions_empty_first(bs, duration_seconds, sample_rate_hz, closed) ==
    IF bs = <<>>
    THEN [result |-> "ok", samples |-> <<>>, bodies |-> bs, grav |-> <<>>]
    ELSE IF ~ArgumentsValid(duration_seconds, sample_rate_hz)
    THEN [result |-> "ValueError", samples |-> <<>>, bodies |-> bs, grav |-> <<>>]
    ELSE SampleBodies(bs, duration_seconds, sample_rate_hz, closed)

\* sample_positions without the empty-System return
sample_positions_unguarded(bs, duration_seconds, sample_rate_hz, closed) ==
    IF ~ArgumentsValid(duration_seconds, sample_rate_hz)
    THEN [result |-> "ValueError", samples |-> <<>>, bodies |-> bs, grav |-> <<>>]
    ELSE SampleBodies(bs, duration_seconds, sample_rate_hz, closed)

\* System.sample_positions: result is "ok" with the returned list in samples, or
\* the name of the exception raised (samples is then empty: nothing is returned)
sample_positions(bs, duration_seconds, sample_rate_hz, closed) ==
    IF ~ArgumentsValid(duration_seconds, sample_rate_hz)
    THEN [result |-> "ValueError", samples |-> <<>>, bodies |-> bs, grav |-> <<>>]
    ELSE IF bs = <<>>
    THEN [result |-> "ok", samples |-> <<>>, bodies |-> bs, grav |-> <<>>]
    ELSE SampleBodies(bs, duration_seconds, sample_rate_hz, closed)

---------------------------------------------------------------------------
(* The Systems of the model *)

\* the value of a metadata key that holds no list
NoList == "None"

\* PhysicsBody.__init__ on a configuration of _build_initial_bodies' shape:
\* metadata = {**planet, "visible": True}, which keeps the configuration's
\* "position" list itself (here: a key of heap) when it has one
NewBody(name, kind, mass, position, velocity, listRef) ==
    [name |-> name, mass |-> mass, position |-> position, velocity |-> velocity,
     force |-> Zero3,
     metadata |-> [kind |-> kind, visible |-> TRUE, position |-> listRef]]

\* the bodies a System of the model is built from, in insertion order:
\*   A-Z and A-B are at the cutoff distance, Z-B is beyond it,
\*   Z-D and B-D are within it in the xy-plane and beyond it in space,
\*   D lies above A (the same x and y), at twice the cutoff,
\*   Sun2 lies on B and E lies on A, and Z has no mass
Catalogue ==
    << NewBody("Sun",  "star",  8, <<0, 0, 0>>, <<0, 0, 0>>,  NoList),
       NewBody("A",    "rocky", 1, <<2, 0, 0>>, <<0, 2, 0>>,  "A"),
       NewBody("Z",    "rocky", 0, <<2, 1, 0>>, <<0, 0, 0>>,  NoList),
       NewBody("B",    "gas",   2, <<3, 0, 0>>, <<0, 1, 0>>,  "B"),
       NewBody("Sun2", "star",  4, <<3, 0, 0>>, <<0, 0, 0>>,  NoList),
       NewBody("D",    "gas",   1, <<2, 0, 2>>, <<0, 1, 0>>,  NoList),
       NewBody("E",    "rocky", 1, <<2, 0, 0>>, <<0, -1, 0>>, NoList) >>

\* System(initial_bodies = the chosen entries, in order)
SystemOf(S) == SelectSeq(Catalogue, LAMBDA b : \E i \in S : Catalogue[i] = b)

Systems ==
    {SystemOf(S) : S \in {T \in SUBSET (1..Len(Catalogue)) : Cardinality(T) <= MaxBodies}}

\* the lists the configurations carry, by reference
Refs == {"A", "B"}

InitialHeap == [r \in Refs |-> IF r = "A" THEN <<2, 0, 0>> ELSE <<3, 0, 0>>]

\* the durations tried: negative, zero, and two whose product with a whole rate
\* is not whole, so that the ceiling shows
Durations == {<<-1, 2>>, <<0, 1>>, <<1, 2>>, <<3, 2>>}

Rates == {<<n, 1>> : n \in 0..MaxRate}

StepDts == {<<1, 1>>}

---------------------------------------------------------------------------
(* The state machine *)

\* the samples as a reader sees them: each metadata value that is a reference
\* replaced by the list it refers to now
SeenBody(sb, h) ==
    [name |-> sb.name, position |-> sb.position,
     kind |-> sb.metadata.kind, visible |-> sb.metadata.visible,
     list |-> IF sb.metadata.position = NoList THEN Zero3 ELSE h[sb.metadata.position]]

Seen(samples, h) ==
    [k \in 1..Len(samples) |->
        [t |-> samples[k].t,
         bodies |-> [i \in 1..Len(samples[k].bodies) |-> SeenBody(samples[k].bodies[i], h)]]]

\* no samples_for_system call is part of the behaviour
NoRequest == "None"

NoResponse ==
    [result |-> "none", planetMetadata |-> <<>>, samples |-> <<>>, raw |-> <<>>,
     duration_sec |-> <<0, 1>>, dt_sec |-> <<0, 1>>]

\* no function of backend/music is called in the behaviour
NoCall == [op |-> "none", args |-> <<>>, result |-> <<>>]

\* the edge rule of the library shows only where a quadtree is built
EdgeRules(bs) == IF Len(non_stars(bs)) < 2 THEN {FALSE} ELSE BOOLEAN

Init ==
    /\ bodies \in Systems
    /\ heap = InitialHeap
    /\ qtClosed \in EdgeRules(bodies)
    /\ stepsTaken = 0
    /\ mutations = 0
    /\ last = [op |-> "none", args |-> <<>>, result |-> "ok", samples |-> <<>>,
               seen |-> <<>>, pre |-> <<>>, grav |-> <<>>, repeat |-> FALSE]
    /\ request = NoRequest
    /\ response = NoResponse
    /\ unsampled = bodies
    /\ call = NoCall

\* a direct call system.step(dt)
Step(dt) ==
    /\ stepsTaken < MaxSteps
    /\ \E r \in {step(bodies, dt, qtClosed)} :
           /\ bodies' = r.bodies
           /\ last' = [op |-> "step", args |-> <<dt>>,
                       result |-> IF r.raised THEN "ZeroDivisionError" ELSE "ok",
                       samples |-> <<>>, seen |-> <<>>, pre |-> bodies,
                       grav |-> r.grav, repeat |-> FALSE]
    /\ unsampled' = step(unsampled, dt, qtClosed).bodies
    /\ stepsTaken' = stepsTaken + 1
    /\ UNCHANGED <<heap, qtClosed, mutations, request, response, call>>

\* a call system.sample_positions(duration_seconds, sample_rate_hz); repeat
\* tells that the call before it was the same call and returned a list
SamplePositions(duration_seconds, sample_rate_hz) ==
    /\ \E r \in {sample_positions(bodies, duration_seconds, sample_rate_hz, qtClosed)} :
           /\ bodies' = r.bodies
           /\ last' = [op |-> "sample",
                       args |-> <<duration_seconds, sample_rate_hz>>,
                       result |-> r.result, samples |-> r.samples,
                       seen |-> Seen(r.samples, heap), pre |-> bodies,
                       grav |-> r.grav,
                       repeat |-> /\ last.op = "sample"
                                  /\ last.result = "ok"
                                  /\ last.args = <<duration_seconds, sample_rate_hz>>]
    /\ UNCHANGED <<heap, qtClosed, stepsTaken, mutations, request, response,
                   unsampled, call>>

Next ==
    \/ \E dt \in StepDts : Step(dt)
    \/ \E d \in Durations, q \in Rates : SamplePositions(d, q)

Spec == Init /\ [][Next]_vars

---------------------------------------------------------------------------
(* A caller that keeps a returned sample list and then writes into the live
   bodies: body.position[0] = v, body.metadata["visible"] = False, and
   body.metadata["position"][0] = v on the list a configuration carried *)

\* the values a caller writes
WrittenValues == {9}

\* a caller holds a list that sample_positions returned
HoldsSamples == last.op = "sample" /\ last.result = "ok" /\ last.samples # <<>>

\* body.position[0] = written, in place on the live array
MutatePosition(i) ==
    /\ HoldsSamples
    /\ mutations < MaxMutations
    /\ \E written \in WrittenValues :
           bodies' = [bodies EXCEPT ![i].position[1] = written]
    /\ mutations' = mutations + 1
    /\ UNCHANGED <<heap, qtClosed, stepsTaken, last, request, response,
                   unsampled, call>>

\* body.metadata["visible"] = False, on the live dict
MutateMetadata(i) ==
    /\ HoldsSamples
    /\ mutations < MaxMutations
    /\ bodies' = [bodies EXCEPT ![i].metadata.visible = FALSE]
    /\ mutations' = mutations + 1
    /\ UNCHANGED <<heap, qtClosed, stepsTaken, last, request, response,
                   unsampled, call>>

\* body.metadata["position"][0] = written, on the list the live dict refers to
MutateMetadataList(i) ==
    /\ HoldsSamples
    /\ mutations < MaxMutations
    /\ bodies[i].metadata.position # NoList
    /\ \E written \in WrittenValues :
           heap' = [heap EXCEPT ![bodies[i].metadata.position][1] = written]
    /\ mutations' = mutations + 1
    /\ UNCHANGED <<bodies, qtClosed, stepsTaken, last, request, response,
                   unsampled, call>>

InitMutation == Init /\ Len(bodies) <= MaxMutatedBodies

NextMutation ==
    \/ \E dt \in StepDts : Step(dt)
    \/ \E d \in Durations, q \in Rates : SamplePositions(d, q)
    \/ \E i \in 1..Len(bodies) : MutatePosition(i)
    \/ \E i \in 1..Len(bodies) : MutateMetadata(i)
    \/ \E i \in 1..Len(bodies) : MutateMetadataList(i)

SpecMutation == InitMutation /\ [][NextMutation]_vars

---------------------------------------------------------------------------
(* backend/physics.py: _build_initial_bodies, _extract_metadata,
   samples_for_system.  A configuration is [star |-> [massMs |-> m],
   planets |-> a sequence of planet records]; a planet record has name, kind,
   aAU, mass, ellipticity, position and velocity, the last three None when the
   request leaves them out.  Of the keys that {**planet, "visible": True}
   carries into a body's metadata, the kind and the visibility flag are kept. *)

\* an optional value that is left out
None == "None"

\* STAR_MASS_SCALE
STAR_MASS_SCALE == 100

\* SIM_G, in the model's units: the constant samples_for_system gives the System
SIM_G == gravitational_constant

RatLess(p, q) == p[1] * q[2] < q[1] * p[2]

RatMin(p, q) == IF RatLess(q, p) THEN q ELSE p

RatMax(p, q) == IF RatLess(p, q) THEN q ELSE p

\* _vector3: the first three values, zeros where there are fewer
vector3(values) ==
    <<IF Len(values) >= 1 THEN values[1] ELSE 0,
      IF Len(values) >= 2 THEN values[2] ELSE 0,
      IF Len(values) >= 3 THEN values[3] ELSE 0>>

\* position_vec of a planet
PlanetPosition(planet) ==
    IF planet.position # None THEN vector3(planet.position) ELSE <<planet.aAU, 0, 0>>

\* float(planet.get("ellipticity") or 0.0)
EllipticityOf(planet) ==
    IF planet.ellipticity = None THEN <<0, 1>> ELSE planet.ellipticity

\* the upper end of the clamp, 0.95
MaxEllipticity == <<19, 20>>

\* a clamp whose upper end is 1
ClampToOne(e) == RatMax(<<0, 1>>, RatMin(e, <<1, 1>>))

\* max(0.0, min(ellipticity, 0.95))
Clamp(e) == RatMax(<<0, 1>>, RatMin(e, MaxEllipticity))

\* velocity_scale = 1.0 - 0.5 * ellipticity
VelocityScale(e) == <<2 * e[2] - e[1], 2 * e[2]>>

\* math.hypot of the first two coordinates
DistXY(position_vec) ==
    ISqrt(position_vec[1] * position_vec[1] + position_vec[2] * position_vec[2])

\* speed = math.sqrt(SIM_G * star_mass / dist_xy)
OrbitSpeed(star_mass, dist_xy) == ISqrt(TDiv(SIM_G * star_mass, dist_xy))

\* direction * speed * velocity_scale, with direction = (-y / d, x / d, 0)
Tangential(position_vec, dist_xy, speed, scale) ==
    <<TDiv((-position_vec[2]) * speed * scale[1], dist_xy * scale[2]),
      TDiv(position_vec[1] * speed * scale[1], dist_xy * scale[2]),
      0>>

\* the velocity of a planet whose configuration gives none
DefaultVelocity(planet, position_vec, dist_xy, star_mass) ==
    IF dist_xy > 0
    THEN Tangential(position_vec, dist_xy, OrbitSpeed(star_mass, dist_xy),
                    VelocityScale(Clamp(EllipticityOf(planet))))
    ELSE Zero3

\* velocity_vec of a planet
PlanetVelocity(planet, position_vec, star_mass) ==
    IF planet.velocity # None
    THEN vector3(planet.velocity)
    ELSE DefaultVelocity(planet, position_vec, DistXY(position_vec), star_mass)

\* the body built for one planet
PlanetBody(planet, position_vec, star_mass) ==
    NewBody(planet.name, planet.kind, planet.mass, position_vec,
            PlanetVelocity(planet, position_vec, star_mass), NoList)

\* system_cfg["star"].get("name", "Star")
StarName(star) == IF "name" \in DOMAIN star THEN star.name ELSE "Star"

\* the body built for the star
StarBody(star) ==
    NewBody(StarName(star), "star", star.massMs * STAR_MASS_SCALE, Zero3, Zero3, NoList)

\* _build_initial_bodies: the star, then the planets in configuration order
build_initial_bodies(system_cfg) ==
    <<StarBody(system_cfg.star)>>
    \o [k \in 1..Len(system_cfg.planets) |->
            PlanetBody(system_cfg.planets[k], PlanetPosition(system_cfg.planets[k]),
                       system_cfg.star.massMs * STAR_MASS_SCALE)]

---------------------------------------------------------------------------
(* backend/physics.py: _extract_metadata and samples_for_system *)

\* the bodies of a sample that pass `metadata.get("visible", True) is False: continue`
VisibleBodies(sample) == SelectSeq(sample.bodies, LAMBDA b : b.metadata.visible)

\* _extract_metadata that leaves the star out of the list
extract_metadata_planets_only(first_sample) ==
    [k \in 1..(Len(VisibleBodies(first_sample)) - 1) |->
        [name |-> VisibleBodies(first_sample)[k + 1].name,
         kind |-> VisibleBodies(first_sample)[k + 1].metadata.kind]]

\* _extract_metadata: planet_metadata, one entry per visible body of the first
\* sample, in the order of the sample; ordered_names are the names of its entries
extract_metadata(first_sample) ==
    [k \in 1..Len(VisibleBodies(first_sample)) |->
        [name |-> VisibleBodies(first_sample)[k].name,
         kind |-> VisibleBodies(first_sample)[k].metadata.kind]]

\* name_to_index = {name: idx for idx, name in enumerate(ordered_names)}: of two
\* entries with one name the later stays; 0 stands for a name that is no key
NameToIndex(planet_metadata, name) ==
    IF \E i \in 1..Len(planet_metadata) : planet_metadata[i].name = name
    THEN CHOOSE i \in 1..Len(planet_metadata) :
            /\ planet_metadata[i].name = name
            /\ \A j \in 1..Len(planet_metadata) : planet_metadata[j].name = name => j <= i
    ELSE 0

\* the bodies (by rank among the visible ones) that write positions[idx]
WritersOf(visible, planet_metadata, idx) ==
    {i \in 1..Len(visible) : NameToIndex(planet_metadata, visible[i].name) = idx}

\* positions[idx] once the loop over the bodies has run: [0.0, 0.0] if no body
\* wrote it, and what the last of its writers wrote otherwise
PositionAt(visible, writers) ==
    IF writers = {}
    THEN <<0, 0>>
    ELSE <<visible[MaxOf(writers)].position[1], visible[MaxOf(writers)].position[2]>>

\* one entry of samples: the time and the positions row of a raw sample
ResponseSample(sample, planet_metadata) ==
    [t |-> sample.t,
     positions |-> [idx \in 1..Len(planet_metadata) |->
                        PositionAt(VisibleBodies(sample),
                                   WritersOf(VisibleBodies(sample), planet_metadata, idx))]]

\* the return value built from the raw samples and the planet metadata
ResponseOf(raw_samples, planet_metadata) ==
    [result |-> "ok",
     planetMetadata |-> planet_metadata,
     samples |-> [k \in 1..Len(raw_samples) |->
                    ResponseSample(raw_samples[k], planet_metadata)],
     raw |-> raw_samples]

\* a call that raised: nothing is returned
Raised(error) == [result |-> error, planetMetadata |-> <<>>, samples |-> <<>>, raw |-> <<>>]

\* samples_for_system after sample_positions has run
SamplesFromRaw(r) ==
    IF r.result # "ok"
    THEN Raised(r.result)
    ELSE IF r.samples = <<>>
    THEN [result |-> "ok", planetMetadata |-> <<>>, samples |-> <<>>, raw |-> <<>>]
    ELSE ResponseOf(r.samples, extract_metadata(r.samples[1]))

\* samples_for_system(system_cfg, duration_sec, dt_sec)
samples_for_system(system_cfg, duration_sec, dt_sec, closed) ==
    IF RatLeqZero(dt_sec)
    THEN Raised("ValueError")
    ELSE SamplesFromRaw(sample_positions(build_initial_bodies(system_cfg), duration_sec,
                                         <<dt_sec[2], dt_sec[1]>>, closed))

---------------------------------------------------------------------------
(* The requests of the model *)

\* planets of a configuration
MaxPlanets == 2

NewPlanet(name, kind, aAU, mass, ellipticity, position, velocity) ==
    [name |-> name, kind |-> kind, aAU |-> aAU, mass |-> mass,
     ellipticity |-> ellipticity, position |-> position, velocity |-> velocity]

\* the planets a configuration is made of: two share the name "A", one has the
\* star's default name, one gives a two-element position and a velocity, one
\* lies off the axes and one, on the star, has no mass; the ellipticities are
\* left out, inside the clamp, above it and below it
PlanetCatalogue ==
    << NewPlanet("A",    "rocky", 1, 1, <<1, 2>>,  None,         None),
       NewPlanet("B",    "gas",   4, 2, <<2, 1>>,  None,         None),
       NewPlanet("A",    "gas",   5, 1, None,      <<3, 4, 0>>,  None),
       NewPlanet("Star", "rocky", 2, 1, <<-1, 1>>, <<0, 2, 0>>,  None),
       NewPlanet("C",    "rocky", 5, 1, None,      <<3, 4>>,     <<0, 3, 0>>),
       NewPlanet("D",    "rocky", 0, 0, None,      None,         None) >>

\* the values of massMs: with them the speed of the planet off the axes is whole
StarMasses == {5, 20}

\* the sequences of up to MaxPlanets different catalogue entries, in any order
PlanetChoices ==
    {s \in UNION {[1..n -> 1..Len(PlanetCatalogue)] : n \in 0..MaxPlanets} :
        \A i, j \in 1..Len(s) : s[i] = s[j] => i = j}

Requests ==
    {[star |-> [massMs |-> m],
      planets |-> [k \in 1..Len(s) |-> PlanetCatalogue[s[k]]]] :
        m \in StarMasses, s \in PlanetChoices}

\* durationSec and dtSec of a request
DurationSecs == {<<0, 1>>, <<1, 1>>, <<3, 2>>}

DtSecs == {<<0, 1>>, <<1, 1>>, <<1, 2>>}

\* _build_initial_bodies(request); the list is kept in bodies
BuildInitialBodies ==
    /\ bodies = <<>>
    /\ bodies' = build_initial_bodies(request)
    /\ UNCHANGED <<heap, qtClosed, stepsTaken, mutations, last, request, response,
                   unsampled, call>>

\* samples_for_system(request, duration_sec, dt_sec), once for a request; its
\* System is its own
SamplesForSystem(duration_sec, dt_sec) ==
    /\ response = NoResponse
    /\ \E r \in {samples_for_system(request, duration_sec, dt_sec, qtClosed)} :
           response' = [result |-> r.result, planetMetadata |-> r.planetMetadata,
                        samples |-> r.samples, raw |-> r.raw,
                        duration_sec |-> duration_sec, dt_sec |-> dt_sec]
    /\ UNCHANGED <<bodies, heap, qtClosed, stepsTaken, mutations, last, request,
                   unsampled, call>>

InitPhysics ==
    /\ request \in Requests
    /\ response = NoResponse
    /\ bodies = <<>>
    /\ heap = InitialHeap
    /\ qtClosed \in (IF Len(request.planets) < 2 THEN {FALSE} ELSE BOOLEAN)
    /\ stepsTaken = 0
    /\ mutations = 0
    /\ last = [op |-> "none", args |-> <<>>, result |-> "ok", samples |-> <<>>,
               seen |-> <<>>, pre |-> <<>>, grav |-> <<>>, repeat |-> FALSE]
    /\ unsampled = <<>>
    /\ call = NoCall

NextPhysics ==
    \/ BuildInitialBodies
    \/ \E d \in DurationSecs, dt \in DtSecs : SamplesForSystem(d, dt)

SpecPhysics == InitPhysics /\ [][NextPhysics]_vars

---------------------------------------------------------------------------
(* backend/physics.py: period_days.  A semi-major axis is held in hundredths
   of an AU and a period in hundredths of a day; aAU ** 1.5 is the square
   root of the cube, rounded down as every float operation of the model. *)

\* 365.25 days, in hundredths of a day
YearCentiDays == 36525

\* 1.0 AU, in hundredths of an AU
OneAU == 100

\* aAU ** 1.5, in thousandths (the axis in hundredths)
PowThreeHalves(aAU) == ISqrt(aAU * aAU * aAU)

\* a period proportional to the axis itself
period_days_linear(aAU) == TDiv(YearCentiDays * aAU, OneAU)

\* period_days(aAU) = 365.25 * aAU ** 1.5
period_days(aAU) == TDiv(YearCentiDays * PowThreeHalves(aAU), 1000)

\* the semi-major axes tried, in hundredths of an AU: k * k for the squares,
\* whose power 1.5 is exact, and an axis between two squares and the next
SemiMajorAxes ==
    {k * k : k \in 0..MaxAxisRoot} \cup {k * k + 1 : k \in 0..MaxAxisRoot}

\* a call period_days(aAU)
PeriodDays(aAU) ==
    /\ call' = [op |-> "period_days", args |-> <<aAU>>, result |-> period_days(aAU)]
    /\ UNCHANGED <<bodies, heap, qtClosed, stepsTaken, mutations, last, request,
                   response, unsampled>>

---------------------------------------------------------------------------
(* One star and one planet on the default circular orbit, advanced by direct
   step() calls for one Kepler period.  The lengths of this System are in
   thousandths of an AU and its masses in units of 10^-7, so that the model's
   gravitational_constant = 1 and star mass 100 * massMs give the code's
   SIM_G * STAR_MASS_SCALE * massMs = 1 AU^3 per second^2 for massMs = 1.0.
   With one planet no planet pair exists and the cutoff plays no part. *)

\* aAU = 1.0, in thousandths of an AU
OrbitAU == 10 * OneAU

\* massMs = 1.0, in the mass units of this System
OrbitSolarMass == OrbitAU * OrbitAU * 10

\* the star of massMs 1.0 and one planet at aAU 1.0 that is given no position,
\* no velocity and no ellipticity; its mass is the smallest the model holds
OrbitRequest ==
    [star |-> [massMs |-> OrbitSolarMass],
     planets |-> <<NewPlanet("Earth", "rocky", OrbitAU, 1, None, None, None)>>]

\* one Kepler period, period_days(1.0), taken as the time to simulate
OrbitDuration == <<period_days(OneAU), 100>>

\* the time step of the simulation, a quarter of a second
OrbitRate == <<4, 1>>

OrbitSteps == StepCount(OrbitDuration, OrbitRate)

\* one pass of the caller's loop `for _ in range(steps): system.step(dt)`
OrbitStep ==
    /\ bodies # <<>>
    /\ stepsTaken < OrbitSteps
    /\ \E r \in {step(bodies, SampleDt(OrbitRate), qtClosed)} :
           /\ bodies' = r.bodies
           /\ last' = [op |-> "step", args |-> <<SampleDt(OrbitRate)>>,
                       result |-> IF r.raised THEN "ZeroDivisionError" ELSE "ok",
                       samples |-> <<>>, seen |-> <<>>, pre |-> bodies,
                       grav |-> r.grav, repeat |-> FALSE]
    /\ stepsTaken' = stepsTaken + 1
    /\ UNCHANGED <<heap, qtClosed, mutations, request, response, unsampled, call>>

InitOrbit ==
    /\ request = OrbitRequest
    /\ response = NoResponse
    /\ bodies = <<>>
    /\ heap = InitialHeap
    /\ qtClosed = FALSE
    /\ stepsTaken = 0
    /\ mutations = 0
    /\ last = [op |-> "none", args |-> <<>>, result |-> "ok", samples |-> <<>>,
               seen |-> <<>>, pre |-> <<>>, grav |-> <<>>, repeat |-> FALSE]
    /\ unsampled = <<>>
    /\ call = NoCall

NextOrbit ==
    \/ BuildInitialBodies
    \/ OrbitStep

SpecOrbit == InitOrbit /\ [][NextOrbit]_vars

---------------------------------------------------------------------------
(* backend/music/note_mapping.py: a_to_midi.  math.log is a binary logarithm
   in fixed point, found bit by bit by squaring; the ratio of two differences
   of logarithms does not depend on the base. *)

\* NOTE_RANGE
NOTE_RANGE == <<48, 72>>

\* min_a = 0.2 and max_a = 10.0, in hundredths of an AU
MinAxis == 20

MaxAxis == 1000

\* the fraction bits a logarithm keeps, and the scale of a mantissa
LogFracBits == 12

LogScale == 2 ^ 14

\* the integer part of the binary logarithm of n >= 1
RECURSIVE IntLog2(_)
IntLog2(n) == IF n < 2 THEN 0 ELSE 1 + IntLog2(n \div 2)

\* the first `bits` fraction bits of the binary logarithm of y / LogScale, for
\* LogScale <= y < 2 * LogScale
RECURSIVE LogFraction(_, _)
LogFraction(y, bits) ==
    IF bits = 0
    THEN 0
    ELSE IF (y * y) \div LogScale >= 2 * LogScale
    THEN 2 ^ (bits - 1) + LogFraction(((y * y) \div LogScale) \div 2, bits - 1)
    ELSE LogFraction((y * y) \div LogScale, bits - 1)

\* math.log of n >= 1, in units of 2 ^ -LogFracBits
Log(n) ==
    IntLog2(n) * (2 ^ LogFracBits)
        + LogFraction((n * LogScale) \div (2 ^ IntLog2(n)), LogFracBits)

\* round() of a rational: to the nearest integer, a tie to the even one
RoundHalfEven(q) ==
    LET whole == q[1] \div q[2]
        rest  == q[1] % q[2]
    IN  IF 2 * rest < q[2] THEN whole
        ELSE IF 2 * rest > q[2] THEN whole + 1
        ELSE IF whole % 2 = 0 THEN whole ELSE whole + 1

\* a clamp that has no upper end
ClampAxisBelow(a_au) == Max(MinAxis, a_au)

\* clamped = max(min_a, min(max_a, float(a_au)))
ClampAxis(a_au) == Max(MinAxis, IF a_au < MaxAxis THEN a_au ELSE MaxAxis)

\* ratio = (log(clamped) - log(min_a)) / (log(max_a) - log(min_a))
LogRatio(clamped) == <<Log(clamped) - Log(MinAxis), Log(MaxAxis) - Log(MinAxis)>>

\* midi = NOTE_RANGE[0] + ratio * (NOTE_RANGE[1] - NOTE_RANGE[0])
MidiOfRatio(ratio) ==
    <<NOTE_RANGE[1] * ratio[2] + ratio[1] * (NOTE_RANGE[2] - NOTE_RANGE[1]), ratio[2]>>

\* a_to_midi(a_au) = int(round(midi))
a_to_midi(a_au) == RoundHalfEven(MidiOfRatio(LogRatio(ClampAxis(a_au))))

\* a call a_to_midi(a_au)
AToMidi(a_au) ==
    /\ call' = [op |-> "a_to_midi", args |-> <<a_au>>, result |-> a_to_midi(a_au)]
    /\ UNCHANGED <<bodies, heap, qtClosed, stepsTaken, mutations, last, request,
                   response, unsampled>>

---------------------------------------------------------------------------
(* backend/music/note_mapping.py: get_note_from_order *)

\* chord_intervals = [0, 4, 7]: C, E, G
chord_intervals == <<0, 4, 7>>

notes_per_octave == Len(chord_intervals)

middle_c == 60

\* max(0, min(127, midi_note))
ClampMidi(midi_note) == Max(0, IF midi_note < 127 THEN midi_note ELSE 127)

\* octaves_needed = (total_notes_needed + notes_per_octave - 1) // notes_per_octave
OctavesNeeded(max_order) == (max_order + 1 + notes_per_octave - 1) \div notes_per_octave

\* start_octave_offset = -((octaves_needed - 1) // 2)
StartOctaveOffset(max_order) == -((OctavesNeeded(max_order) - 1) \div 2)

\* every order in the first octave of the stack
OctaveOffsetFlat(order, max_order) == StartOctaveOffset(max_order)

\* octave_offset = start_octave_offset + order // notes_per_octave
OctaveOffset(order, max_order) ==
    StartOctaveOffset(max_order) + (order \div notes_per_octave)

\* get_note_from_order(order, max_order)
get_note_from_order(order, max_order) ==
    ClampMidi(middle_c + OctaveOffset(order, max_order) * 12
                       + chord_intervals[(order % notes_per_octave) + 1])

\* a call get_note_from_order(order, max_order)
GetNoteFromOrder(order, max_order) ==
    /\ call' = [op |-> "get_note_from_order", args |-> <<order, max_order>>,
                result |-> get_note_from_order(order, max_order)]
    /\ UNCHANGED <<bodies, heap, qtClosed, stepsTaken, mutations, last, request,
                   response, unsampled>>

---------------------------------------------------------------------------
(* backend/music/utils.py: downsample_envelope.  An envelope is a sequence of
   points [t |-> a rational, velocity |-> a rational]. *)

RatAdd(p, q) == <<p[1] * q[2] + q[1] * p[2], p[2] * q[2]>>

RatSub(p, q) == <<p[1] * q[2] - q[1] * p[2], p[2] * q[2]>>

\* target_hz, the default of the parameter
target_hz == 5

\* target_count = max(2, int(duration_sec * target_hz)), for duration_sec > 0
TargetCount(duration_sec) == Max(2, (duration_sec[1] * target_hz) \div duration_sec[2])

\* step = max(1, len(envelope) // target_count)
EnvelopeStep(envelope, duration_sec) ==
    Max(1, Len(envelope) \div TargetCount(duration_sec))

\* envelope[::step]
EveryNth(envelope, stride) ==
    [k \in 1..((Len(envelope) + stride - 1) \div stride) |-> envelope[(k - 1) * stride + 1]]

\* if downsampled[-1]["t"] != envelope[-1]["t"]: downsampled.append(envelope[-1])
AppendLast(envelope, downsampled) ==
    IF ~RatEq(downsampled[Len(downsampled)].t, envelope[Len(envelope)].t)
    THEN Append(downsampled, envelope[Len(envelope)])
    ELSE downsampled

\* a selection that never appends the last point
DownsampledWithoutLast(envelope, stride) == EveryNth(envelope, stride)

\* the selection of the points once the envelope is known to be too long
Downsampled(envelope, stride) == AppendLast(envelope, EveryNth(envelope, stride))

\* downsample_envelope(envelope, duration_sec)
downsample_envelope(envelope, duration_sec) ==
    IF RatLeqZero(duration_sec) \/ Len(envelope) <= 2
    THEN envelope
    ELSE IF Len(envelope) <= TargetCount(duration_sec)
    THEN envelope
    ELSE Downsampled(envelope, EnvelopeStep(envelope, duration_sec))

\* the times of the points of an envelope: the first is 0, and each later
\* point is one second after the point before it or at the same time
EnvelopeGaps == UNION {[1..n -> {0, 1}] : n \in 0..(MaxEnvelope - 1)}

RECURSIVE GapSum(_, _)
GapSum(gaps, k) == IF k = 0 THEN 0 ELSE gaps[k] + GapSum(gaps, k - 1)

\* the envelope of Len(gaps) + 1 points with these times; the velocity of a
\* point tells it from the others
EnvelopeOf(gaps) ==
    [k \in 1..(Len(gaps) + 1) |->
        [t |-> <<GapSum(gaps, k - 1), 1>>, velocity |-> <<k, MaxEnvelope + 1>>]]

Envelopes == {<<>>} \cup {EnvelopeOf(gaps) : gaps \in EnvelopeGaps}

\* duration_sec: negative, zero, and 0.4 and 0.6 seconds, which ask for 2 and
\* for 3 points
EnvelopeDurations == {<<-1, 1>>, <<0, 1>>, <<2, 5>>, <<3, 5>>}

\* a call downsample_envelope(envelope, duration_sec)
DownsampleEnvelope(envelope, duration_sec) ==
    /\ call' = [op |-> "downsample_envelope", args |-> <<envelope, duration_sec>>,
                result |-> downsample_envelope(envelope, duration_sec)]
    /\ UNCHANGED <<bodies, heap, qtClosed, stepsTaken, mutations, last, request,
                   response, unsampled>>

---------------------------------------------------------------------------
(* backend/music/utils.py: inflate_samples.  A sample is [t, positions], a
   metadata entry [name, kind, radius]; coordinates are whole numbers. *)

\* RADIUS_RANGE
RADIUS_RANGE == <<2, 12>>

\* positions[idx] if idx < len(positions) else [0.0, 0.0]
PositionOrOrigin(sample, idx) ==
    IF idx <= Len(sample.positions) THEN sample.positions[idx] ELSE <<0, 0>>

\* meta.get("radius", RADIUS_RANGE[0])
MetaRadius(meta) == IF "radius" \in DOMAIN meta THEN meta.radius ELSE RADIUS_RANGE[1]

\* one entry of "planets"
InflatedPlanet(meta, pos) ==
    [name |-> meta.name, kind |-> meta.kind, radius |-> MetaRadius(meta),
     x |-> pos[1], y |-> pos[2]]

\* inflate_samples(samples, planet_metadata)
inflate_samples(samples, planet_metadata) ==
    [k \in 1..Len(samples) |->
        [t |-> samples[k].t,
         planets |-> [i \in 1..Len(planet_metadata) |->
                         InflatedPlanet(planet_metadata[i],
                                        PositionOrOrigin(samples[k], i))]]]

---------------------------------------------------------------------------
(* backend/music/planet_stats.py and the helpers of utils.py it uses *)

\* list.sort / sorted: the place of element i among the keys, equal keys in
\* their old order
Rank(keys, i) ==
    Cardinality({j \in 1..Len(keys) :
                    \/ RatLess(keys[j], keys[i])
                    \/ (RatEq(keys[j], keys[i]) /\ j < i)}) + 1

StableSortBy(s, keys) ==
    [r \in 1..Len(s) |-> s[CHOOSE i \in 1..Len(s) : Rank(keys, i) = r]]

\* the bodies of a sample whose kind is (not) star, in list order
StarsOf(sample) == SelectSeq(sample.planets, LAMBDA b : b.kind = "star")

PlanetsOf(sample) == SelectSeq(sample.planets, LAMBDA b : b.kind # "star")

\* _find_star_position raises ValueError("No star found in samples")
HasStar(sample) == StarsOf(sample) # <<>>

\* _find_star_position: the first body of kind star
find_star_position(sample) == <<StarsOf(sample)[1].x, StarsOf(sample)[1].y>>

\* the sort key of planets_sorted, squared: the order of the square roots is
\* the order of the squares
DistanceSqTo(b, star_pos) ==
    <<(b.x - star_pos[1]) * (b.x - star_pos[1])
        + (b.y - star_pos[2]) * (b.y - star_pos[2]), 1>>

\* planets_sorted
PlanetsSorted(first, star_pos) ==
    StableSortBy(PlanetsOf(first),
                 [i \in 1..Len(PlanetsOf(first)) |->
                     DistanceSqTo(PlanetsOf(first)[i], star_pos)])

NamesOf(planets) == {planets[i].name : i \in 1..Len(planets)}

\* orders = {planet["name"]: order for order, planet in enumerate(planets_sorted)}:
\* a later planet of the same name overwrites the earlier one
Orders(planets_sorted) ==
    [name \in NamesOf(planets_sorted) |->
        MaxOf({i \in 1..Len(planets_sorted) : planets_sorted[i].name = name}) - 1]

\* r = math.sqrt(x * x + y * y), in hundredths
RadiusOf(b) == ISqrt(10000 * (b.x * b.x + b.y * b.y))

\* the radii get_planets_min_max_radius collects under a name
RadiiOf(samples, name) ==
    {RadiusOf(samples[k].planets[i]) :
        k \in 1..Len(samples),
        i \in {n \in 1..Len(samples[1].planets) :
                  /\ samples[1].planets[n].kind # "star"
                  /\ samples[1].planets[n].name = name}}

\* get_planets_min_max_radius
get_planets_min_max_radius(samples) ==
    [name \in NamesOf(PlanetsOf(samples[1])) |->
        <<MinOf(RadiiOf(samples, name)), MaxOf(RadiiOf(samples, name))>>]

\* calculate_eccentricity(min_r, max_r)
calculate_eccentricity(min_r, max_r) ==
    IF max_r + min_r = 0 THEN <<0, 1>> ELSE <<max_r - min_r, max_r + min_r>>

\* generate_planet_stats(samples), for samples whose first has a star
generate_planet_stats(samples) ==
    LET star_pos == find_star_position(samples[1])
        sorted   == PlanetsSorted(samples[1], star_pos)
        radii    == get_planets_min_max_radius(samples)
    IN  [star_position  |-> star_pos,
         planets_sorted |-> sorted,
         orders         |-> Orders(sorted),
         eccentricities |-> [name \in NamesOf(sorted) |->
                                calculate_eccentricity(radii[name][1], radii[name][2])],
         min_max_radii  |-> radii]

---------------------------------------------------------------------------
(* backend/music/note_mapping.py (radius_to_velocity, note_duration),
   utils.py (eccentricity_to_reverb, wrapped_angle_diff) and orbit_events.py.
   An angle is a whole number of eighths of a turn: the bodies of the model
   stand on the axes and the diagonals through the star, where math.atan2 is
   a multiple of pi / 4.  An event is a record of the fields of main.Event,
   None where the code sets none. *)

\* 2 * math.pi, in eighths of a turn
FullTurn == 8

\* math.atan2(y, x) for a point on an axis or a diagonal
atan2(y, x) ==
    IF y = 0 THEN (IF x >= 0 THEN 0 ELSE 4)
    ELSE IF x = 0 THEN (IF y > 0 THEN 2 ELSE -2)
    ELSE IF x > 0 THEN (IF y > 0 THEN 1 ELSE -1)
    ELSE (IF y > 0 THEN 3 ELSE -3)

\* wrapped_angle_diff(a, b) = (a - b + pi) % (2 * pi) - pi
wrapped_angle_diff(a, b) == ((a - b + FullTurn \div 2) % FullTurn) - FullTurn \div 2

\* radius_to_velocity(radius): 0 below r_min, 1 above r_max, the cube of the
\* normalised radius between
radius_to_velocity(radius) ==
    IF radius < RADIUS_RANGE[1] THEN <<0, 1>>
    ELSE IF radius > RADIUS_RANGE[2] THEN <<1, 1>>
    ELSE <<(radius - RADIUS_RANGE[1]) ^ 3, (RADIUS_RANGE[2] - RADIUS_RANGE[1]) ^ 3>>

\* NOTE_DURATION = {"mallet": 0.3, "pad": 0.6}
NOTE_DURATION == [mallet |-> <<3, 10>>, pad |-> <<6, 10>>]

\* a note that ends when it starts
note_duration_none(instrument, speed) == <<0, 1>>

\* note_duration(instrument, speed): the base duration, shortened by
\* 1 / (1 + 0.5 * min(speed, 3.0)) for a positive speed, and never below 0.15
note_duration(instrument, speed) ==
    LET base  == IF instrument = "mallet" THEN NOTE_DURATION.mallet ELSE NOTE_DURATION.pad
        capped == RatMin(speed, <<3, 1>>)
    IN  IF RatLeqZero(speed)
        THEN base
        ELSE RatMax(<<15, 100>>, RatMul(base, <<2 * capped[2], 2 * capped[2] + capped[1]>>))

\* eccentricity_to_reverb(eccentricity) = 0.1 + eccentricity * 0.7
eccentricity_to_reverb(eccentricity) == RatAdd(<<1, 10>>, RatMul(eccentricity, <<7, 10>>))

\* int(base + factor * span), for a factor that is not negative
ScaledVelocity(base, factor, span) == (base * factor[2] + factor[1] * span) \div factor[2]

\* vel = max(1, min(127, vel))
ClampVel(vel) == Max(1, IF vel < 127 THEN vel ELSE 127)

\* max_order = max(stats.orders.values()) if stats.orders else 0
MaxOrder(stats) ==
    IF DOMAIN stats.orders = {} THEN 0
    ELSE MaxOf({stats.orders[name] : name \in DOMAIN stats.orders})

\* stats.orders.get(name, 0)
OrderOf(stats, name) == IF name \in DOMAIN stats.orders THEN stats.orders[name] ELSE 0

\* stats.eccentricities.get(name, 0.0)
EccentricityOf(stats, name) ==
    IF name \in DOMAIN stats.eccentricities THEN stats.eccentricities[name] ELSE <<0, 1>>

NoteOff(t, name) ==
    [t |-> t, type |-> "note_off", planet |-> name, midi |-> None, vel |-> None,
     instrument |-> None, reverb |-> None, continuous |-> None,
     velocityEnvelope |-> None, eccentricity |-> None]

\* the instrument of _note_events
InstrumentOf(planet) == IF planet.kind = "rocky" THEN "mallet" ELSE "pad"

\* the velocity of _note_events: 20 + factor * 120 for a mallet, 40 + factor * 70 for a pad
NoteVelocity(planet) ==
    ClampVel(IF InstrumentOf(planet) = "mallet"
             THEN ScaledVelocity(20, radius_to_velocity(planet.radius), 120)
             ELSE ScaledVelocity(40, radius_to_velocity(planet.radius), 70))

\* _note_events(planet, t, stats, speed): a note_on and its note_off
note_events(planet, t, stats, speed) ==
    << [t |-> t, type |-> "note_on", planet |-> planet.name,
        midi |-> get_note_from_order(OrderOf(stats, planet.name), MaxOrder(stats)),
        vel |-> NoteVelocity(planet),
        instrument |-> InstrumentOf(planet),
        reverb |-> eccentricity_to_reverb(EccentricityOf(stats, planet.name)),
        continuous |-> None, velocityEnvelope |-> None, eccentricity |-> None],
       NoteOff(RatAdd(t, note_duration(InstrumentOf(planet), speed)), planet.name) >>

\* the bodies of the first sample that planet_orbit_events follows
Followed(first) == SelectSeq(first.planets, LAMBDA b : b.kind # "star" /\ b.kind # "gas")

\* planet_state after the loop over the first sample: one entry per name, of
\* the last body that has it
InitialPlanetState(first, star_pos) ==
    [name \in NamesOf(Followed(first)) |->
        LET body == Followed(first)[MaxOf({i \in 1..Len(Followed(first)) :
                                              Followed(first)[i].name = name})]
        IN  [last_theta |-> atan2(body.y - star_pos[2], body.x - star_pos[1]),
             cumulative_angle |-> 0,
             last_trigger_orbit |-> 0]]

\* the star position of a later sample: its first star, else stats.star_position
CurrentStarPos(sample, stats) ==
    IF HasStar(sample) THEN find_star_position(sample) ELSE stats.star_position

\* float(body.get("speed") or 0.0)
BodySpeed(body) == IF "speed" \in DOMAIN body THEN body.speed ELSE <<0, 1>>

\* if current_orbit > state["last_trigger_orbit"]
Triggers(current_orbit, last_trigger_orbit) == current_orbit > last_trigger_orbit

\* the body of the inner loop for a followed body: the state entry it leaves
\* and the events it adds
FollowBody(body, old, star_pos, t, stats) ==
    LET theta == atan2(body.y - star_pos[2], body.x - star_pos[1])
        cumulative == old.cumulative_angle + wrapped_angle_diff(theta, old.last_theta)
        current_orbit == TDiv(cumulative, FullTurn)
        fires == Triggers(current_orbit, old.last_trigger_orbit)
    IN  [entry |-> [last_theta |-> theta,
                    cumulative_angle |-> cumulative,
                    last_trigger_orbit |-> IF fires THEN current_orbit
                                           ELSE old.last_trigger_orbit],
         events |-> IF fires THEN note_events(body, t, stats, BodySpeed(body)) ELSE <<>>]

\* the inner loop `for body in sample.get("planets", [])` from body i on
RECURSIVE OrbitBodies(_, _, _, _, _, _)
OrbitBodies(sample, i, star_pos, stats, state, events) ==
    IF i > Len(sample.planets)
    THEN [state |-> state, events |-> events]
    ELSE IF sample.planets[i].kind = "star" \/ sample.planets[i].name \notin DOMAIN state
    THEN OrbitBodies(sample, i + 1, star_pos, stats, state, events)
    ELSE LET r == FollowBody(sample.planets[i], state[sample.planets[i].name],
                             star_pos, sample.t, stats)
         IN  OrbitBodies(sample, i + 1, star_pos, stats,
                         [state EXCEPT ![sample.planets[i].name] = r.entry],
                         events \o r.events)

\* the loop `for sample in samples[1:]` from sample k on
RECURSIVE OrbitSamples(_, _, _, _, _)
OrbitSamples(samples, k, stats, state, events) ==
    IF k > Len(samples)
    THEN [state |-> state, events |-> events]
    ELSE LET r == OrbitBodies(samples[k], 1, CurrentStarPos(samples[k], stats),
                              stats, state, events)
         IN  OrbitSamples(samples, k + 1, stats, r.state, r.events)

\* planet_orbit_events(samples, stats), with the planet_state it ends with
OrbitRun(samples, stats) ==
    IF samples = <<>>
    THEN [state |-> << >>, events |-> <<>>]
    ELSE OrbitSamples(samples, 2, stats,
                      InitialPlanetState(samples[1], stats.star_position), <<>>)

planet_orbit_events(samples, stats) == OrbitRun(samples, stats).events

---------------------------------------------------------------------------
(* backend/music/velocity_pads.py and events.py *)

RECURSIVE GCD(_, _)
GCD(a, b) == IF b = 0 THEN a ELSE GCD(b, a % b)

\* a rational in lowest terms: the same number, kept small
Reduced(q) ==
    LET g == GCD(IF q[1] < 0 THEN -q[1] ELSE q[1], q[2])
    IN  <<TDiv(q[1], g), q[2] \div g>>

\* p / q for q > 0
RatDiv(p, q) == Reduced(<<p[1] * q[2], p[2] * q[1]>>)

\* the first body of a sample that has the name
BodyNamed(sample, planet_name) ==
    sample.planets[MinOf({i \in 1..Len(sample.planets) :
                             sample.planets[i].name = planet_name})]

\* distance / dt between two samples, the distance in hundredths
SpeedBetween(earlier, later, planet_name) ==
    LET dx == BodyNamed(later, planet_name).x - BodyNamed(earlier, planet_name).x
        dy == BodyNamed(later, planet_name).y - BodyNamed(earlier, planet_name).y
    IN  RatDiv(<<ISqrt(10000 * (dx * dx + dy * dy)), 100>>, RatSub(later.t, earlier.t))

\* _collect_velocity_samples: a (t, speed) for every sample that comes later in
\* time than the sample before it
collect_velocity_samples(samples, planet_name) ==
    [n \in 1..Len(SelectSeq(Indices(samples),
                            LAMBDA k : k > 1 /\ RatLess(samples[k - 1].t, samples[k].t))) |->
        LET k == SelectSeq(Indices(samples),
                           LAMBDA j : j > 1 /\ RatLess(samples[j - 1].t, samples[j].t))[n]
        IN  [t |-> samples[k].t,
             speed |-> SpeedBetween(samples[k - 1], samples[k], planet_name)]]

\* min(speeds) and max(speeds)
MinSpeed(velocity_samples) ==
    velocity_samples[CHOOSE i \in 1..Len(velocity_samples) :
        \A j \in 1..Len(velocity_samples) :
            ~RatLess(velocity_samples[j].speed, velocity_samples[i].speed)].speed

MaxSpeed(velocity_samples) ==
    velocity_samples[CHOOSE i \in 1..Len(velocity_samples) :
        \A j \in 1..Len(velocity_samples) :
            ~RatLess(velocity_samples[i].speed, velocity_samples[j].speed)].speed

\* the envelope value of a speed: 0.2 + normalized * 0.8, normalized 0.5 when
\* the speeds span no more than 0.0001
EnvelopeValue(speed, min_speed, max_speed) ==
    LET speed_range == RatSub(max_speed, min_speed)
        normalized  == IF RatLess(<<1, 10000>>, speed_range)
                       THEN RatDiv(RatSub(speed, min_speed), speed_range)
                       ELSE <<1, 2>>
    IN  Reduced(RatAdd(<<1, 5>>, RatMul(normalized, <<4, 5>>)))

\* velocity_envelope before it is downsampled
VelocityEnvelope(velocity_samples) ==
    [i \in 1..Len(velocity_samples) |->
        [t |-> velocity_samples[i].t,
         velocity |-> EnvelopeValue(velocity_samples[i].speed,
                                    MinSpeed(velocity_samples),
                                    MaxSpeed(velocity_samples))]]

\* base_vel = max(1, min(127, 80 - int(radius_to_velocity(radius) * 40)))
BaseVel(radius) ==
    ClampVel(80 - (radius_to_velocity(radius)[1] * 40) \div radius_to_velocity(radius)[2])

\* the two events of one gas planet, none when it has no velocity samples
PadEvents(samples, gas_planet, duration_sec, stats) ==
    LET velocity_samples == collect_velocity_samples(samples, gas_planet.name)
    IN  IF velocity_samples = <<>>
        THEN <<>>
        ELSE << [t |-> <<0, 1>>, type |-> "note_on", planet |-> gas_planet.name,
                 midi |-> get_note_from_order(stats.orders[gas_planet.name], MaxOrder(stats)),
                 vel |-> BaseVel(gas_planet.radius),
                 instrument |-> "pad",
                 reverb |-> eccentricity_to_reverb(EccentricityOf(stats, gas_planet.name)),
                 continuous |-> TRUE,
                 velocityEnvelope |-> downsample_envelope(VelocityEnvelope(velocity_samples),
                                                          duration_sec),
                 eccentricity |-> EccentricityOf(stats, gas_planet.name)],
                NoteOff(duration_sec, gas_planet.name) >>

\* gas_planets of the first sample
GasPlanets(first) == SelectSeq(first.planets, LAMBDA b : b.kind = "gas")

\* the loop over gas_planets from planet i on
RECURSIVE PadLoop(_, _, _, _, _)
PadLoop(samples, gas_planets, i, duration_sec, stats) ==
    IF i > Len(gas_planets)
    THEN <<>>
    ELSE PadEvents(samples, gas_planets[i], duration_sec, stats)
             \o PadLoop(samples, gas_planets, i + 1, duration_sec, stats)

\* velocity_pad_events(samples, duration_sec, stats)
velocity_pad_events(samples, duration_sec, stats) ==
    IF Len(samples) < 2
    THEN <<>>
    ELSE PadLoop(samples, GasPlanets(samples[1]), 1, duration_sec, stats)

\* the events left in the order they were made
Unsorted(events) == events

\* events.sort(key=lambda e: e["t"])
SortedByTime(events) == StableSortBy(events, [i \in 1..Len(events) |-> events[i].t])

\* events_for_system once the samples are inflated and a star is found
EventsOf(expanded_samples, duration_sec, stats) ==
    SortedByTime(planet_orbit_events(expanded_samples, stats)
                     \o velocity_pad_events(expanded_samples, duration_sec, stats))

\* events_for_system(samples, planet_metadata, duration_sec): the list, or the
\* ValueError of the two checks and of _find_star_position
events_for_system(samples, planet_metadata, duration_sec) ==
    IF samples = <<>>
    THEN [raised |-> "ValueError", events |-> <<>>]
    ELSE IF inflate_samples(samples, planet_metadata) = <<>>
    THEN [raised |-> "ValueError", events |-> <<>>]
    ELSE IF ~HasStar(inflate_samples(samples, planet_metadata)[1])
    THEN [raised |-> "ValueError", events |-> <<>>]
    ELSE [raised |-> "none",
          events |-> EventsOf(inflate_samples(samples, planet_metadata), duration_sec,
                              generate_planet_stats(inflate_samples(samples, planet_metadata)))]

---------------------------------------------------------------------------
(* The requests events_for_system is called on, as main.compute calls it: the
   samples and the planetMetadata of a response and the request's durationSec.
   The star stands still; a body moves by whole eighths of a turn on a ring
   around it, or along the x axis. *)

\* the unit steps to the eight points of a ring, counter-clockwise from +x
OctantPoints ==
    << <<1, 0>>, <<1, 1>>, <<0, 1>>, <<-1, 1>>, <<-1, 0>>, <<-1, -1>>, <<0, -1>>, <<1, -1>> >>

OnRing(radius, octant) ==
    <<radius * OctantPoints[(octant % FullTurn) + 1][1],
      radius * OctantPoints[(octant % FullTurn) + 1][2]>>

\* the eighths of a turn a body on the outer ring moves between two samples
Moves == {-3, 3}

\* the moves of the body on the outer ring, one per sample after the first
Paths == UNION {[1..n -> Moves] : n \in 0..(MaxSamples - 1)}

RECURSIVE PathSum(_, _)
PathSum(moves, k) == IF k = 0 THEN 0 ELSE moves[k] + PathSum(moves, k - 1)

\* where a body stands in sample k (the first is 1), by the track it follows
TrackPosition(track, moves, k) ==
    CASE track = "star"  -> <<0, 0>>
      [] track = "outer" -> OnRing(2, PathSum(moves, k - 1))
      [] track = "inner" -> OnRing(1, 3 * (k - 1))
      [] track = "line"  -> <<3 + ((k - 1) * k) \div 2, 0>>

\* the bodies of the systems: the metadata entry and the track
EventStar == [meta |-> [name |-> "Star", kind |-> "star", radius |-> 12], track |-> "star"]

EventRocky == [meta |-> [name |-> "A", kind |-> "rocky", radius |-> 7], track |-> "outer"]

EventInner == [meta |-> [name |-> "C", kind |-> "rocky", radius |-> 13], track |-> "inner"]

EventGas == [meta |-> [name |-> "B", kind |-> "gas", radius |-> 12], track |-> "line"]

\* a star with a rocky planet, with a gas planet too, with two rocky planets,
\* and two planets without a star
EventSystems ==
    { <<EventStar, EventRocky>>,
      <<EventStar, EventRocky, EventGas>>,
      <<EventStar, EventInner, EventRocky>>,
      <<EventRocky, EventGas>> }

MetadataOf(sys) == [i \in 1..Len(sys) |-> sys[i].meta]

\* Len(moves) + 1 samples, one second apart
SamplesOf(sys, moves) ==
    [k \in 1..(Len(moves) + 1) |->
        [t |-> <<k - 1, 1>>,
         positions |-> [i \in 1..Len(sys) |-> TrackPosition(sys[i].track, moves, k)]]]

\* durationSec of a request
EventDurations == {<<0, 1>>, <<2, 5>>, <<6, 1>>}

EventInput(planet_metadata, samples, duration_sec) ==
    [result |-> "ok", planetMetadata |-> planet_metadata, samples |-> samples,
     raw |-> <<>>, duration_sec |-> duration_sec, dt_sec |-> <<1, 1>>]

EventInputs ==
    {EventInput(MetadataOf(sys), SamplesOf(sys, moves), d) :
        sys \in EventSystems, moves \in Paths, d \in EventDurations}
    \cup {EventInput(MetadataOf(sys), <<>>, d) : sys \in EventSystems, d \in EventDurations}

\* events_for_system(samples, planet_metadata, req.durationSec), once
EventsForSystem ==
    /\ call = NoCall
    /\ call' = [op |-> "events_for_system",
                args |-> <<response.samples, response.planetMetadata, response.duration_sec>>,
                result |-> events_for_system(response.samples, response.planetMetadata,
                                             response.duration_sec)]
    /\ UNCHANGED <<bodies, heap, qtClosed, stepsTaken, mutations, last, request,
                   response, unsampled>>

InitEvents ==
    /\ response \in EventInputs
    /\ call = NoCall
    /\ request = NoRequest
    /\ bodies = <<>>
    /\ heap = InitialHeap
    /\ qtClosed = FALSE
    /\ stepsTaken = 0
    /\ mutations = 0
    /\ last = [op |-> "none", args |-> <<>>, result |-> "ok", samples |-> <<>>,
               seen |-> <<>>, pre |-> <<>>, grav |-> <<>>, repeat |-> FALSE]
    /\ unsampled = <<>>

NextEvents == EventsForSystem

SpecEvents == InitEvents /\ [][NextEvents]_vars

---------------------------------------------------------------------------
(* Calls of period_days and of the functions of backend/music, each on
   arguments of its own; `call` keeps the last one *)

InitCalls ==
    /\ call = NoCall
    /\ request = NoRequest
    /\ response = NoResponse
    /\ bodies = <<>>
    /\ heap = InitialHeap
    /\ qtClosed = FALSE
    /\ stepsTaken = 0
    /\ mutations = 0
    /\ last = [op |-> "none", args |-> <<>>, result |-> "ok", samples |-> <<>>,
               seen |-> <<>>, pre |-> <<>>, grav |-> <<>>, repeat |-> FALSE]
    /\ unsampled = <<>>

NextCalls ==
    \/ \E aAU \in SemiMajorAxes : PeriodDays(aAU)
    \/ \E a_au \in SemiMajorAxes : AToMidi(a_au)
    \/ \E max_order \in 0..MaxOrderTried : \E order \in 0..max_order :
           GetNoteFromOrder(order, max_order)
    \/ \E envelope \in Envelopes : \E duration_sec \in EnvelopeDurations :
           DownsampleEnvelope(envelope, duration_sec)

SpecCalls == InitCalls /\ [][NextCalls]_vars

---------------------------------------------------------------------------
(* Properties.  `last` describes the call that led to the current state:
   last.pre is the body list before it, bodies the list after it. *)

LastIsSample == last.op = "sample"

LastIsStep == last.op = "step"

\* the arguments of the last sample_positions call
LastDuration == last.args[1]

LastRate == last.args[2]

LastArgsPositive == ~RatLeqZero(LastDuration) /\ ~RatLeqZero(LastRate)

HasZeroMass(bs) == \E i \in 1..Len(bs) : bs[i].mass = 0

PositionsOf(bs) == [i \in 1..Len(bs) |-> bs[i].position]

VelocitiesOf(bs) == [i \in 1..Len(bs) |-> bs[i].velocity]

ForcesOf(bs) == [i \in 1..Len(bs) |-> bs[i].force]

ZeroForces(bs) == [i \in 1..Len(bs) |-> Zero3]

\* the body list after k calls of step(dt), none of which raises
RECURSIVE AfterSteps(_, _, _, _)
AfterSteps(bs, dt, k, closed) ==
    IF k = 0 THEN bs ELSE AfterSteps(step(bs, dt, closed).bodies, dt, k - 1, closed)

\* ceil(D * R) + 1 samples came back, the first at t = 0
CountedFromZero ==
    /\ last.result = "ok"
    /\ Len(last.samples) = RatCeil(RatMul(LastDuration, LastRate)) + 1
    /\ RatEq(last.samples[1].t, <<0, 1>>)

\* C1, as stated: on any System with at least one body, with D > 0 and R > 0,
\* sample_positions returns exactly ceil(D*R) + 1 samples, the first at t = 0.
C1_AsStated ==
    (LastIsSample /\ LastArgsPositive /\ Len(last.pre) >= 1) => CountedFromZero

\* C1, amended: on any System with at least one body and no body of mass zero,
\* with D > 0 and R > 0, sample_positions returns exactly ceil(D*R) + 1 samples,
\* the first at t = 0.
C1_SampleCount ==
    (LastIsSample /\ LastArgsPositive /\ Len(last.pre) >= 1 /\ ~HasZeroMass(last.pre))
        => CountedFromZero

\* a call whose D*R is not whole (3/2 at 1 Hz) came back with three samples
C1_Witness ==
    /\ LastIsSample /\ last.result = "ok"
    /\ LastDuration = <<3, 2>> /\ LastRate = <<1, 1>>
    /\ Len(last.pre) >= 1
    /\ Len(last.samples) = 3

\* C2: in the returned list the sample at index k has t = k * dt, dt = 1/rate,
\* and holds the positions reached after exactly k calls of step(dt) from the
\* pre-call state; the sample at index 0 holds the pre-call positions.
C2_SampleTrajectory ==
    (LastIsSample /\ last.result = "ok") =>
        \A k \in 0..(Len(last.samples) - 1) :
            /\ RatEq(last.samples[k + 1].t, <<k * LastRate[2], LastRate[1]>>)
            /\ [i \in 1..Len(last.samples[k + 1].bodies) |->
                    last.samples[k + 1].bodies[i].position]
               = PositionsOf(AfterSteps(last.pre, <<LastRate[2], LastRate[1]>>, k, qtClosed))

\* a returned list of four samples in which the bodies moved at every step
C2_Witness ==
    /\ LastIsSample /\ last.result = "ok"
    /\ Len(last.samples) = 4
    /\ \A k \in 1..3 : last.samples[k].bodies # last.samples[k + 1].bodies

\* C3: when sample_positions returns or raises while stepping, every body's
\* position and velocity are those before the call and every force is zero.
C3_RestoredOnExit ==
    (LastIsSample /\ last.result \in {"ok", "ZeroDivisionError"}) =>
        /\ PositionsOf(bodies) = PositionsOf(last.pre)
        /\ VelocitiesOf(bodies) = VelocitiesOf(last.pre)
        /\ ForcesOf(bodies) = ZeroForces(bodies)

\* a call that raised on its second body after the first had been advanced,
\* entered with forces left by an earlier step
C3_Witness ==
    /\ LastIsSample /\ last.result = "ZeroDivisionError"
    /\ Len(last.pre) >= 2
    /\ last.pre[1].mass # 0
    /\ last.pre[1].force # Zero3
    /\ Len(last.grav) = 1

\* C4: sample_positions called twice in a row with the same arguments and no
\* step() between returns (or raises) the same both times, and leaves every
\* body's position and velocity as they were before the first call.
C4_RepeatableSampling ==
    [][(LastIsSample /\ last'.op = "sample" /\ last'.args = last.args /\ last' # last)
        => /\ last'.result = last.result
           /\ last'.samples = last.samples
           /\ PositionsOf(bodies') = PositionsOf(last.pre)
           /\ VelocitiesOf(bodies') = VelocitiesOf(last.pre)]_vars

\* the same call made twice after a step, each time returning moving bodies
C4_Witness ==
    /\ LastIsSample /\ last.repeat /\ last.result = "ok"
    /\ stepsTaken >= 1
    /\ Len(last.samples) >= 3
    /\ last.samples[1].bodies # last.samples[3].bodies

\* C5, as stated: after sample_positions the body list and each body's mass,
\* metadata, position, velocity and accumulated force equal their values before
\* the call, from any reachable pre-call state.
C5_AsStated == LastIsSample => bodies = last.pre

\* C5, amended: after sample_positions the body list and its order and each
\* body's mass, metadata, position and velocity equal their values before the
\* call; each body's accumulated force is zero, except that it is left as it
\* was when the call fails its argument checks.
C5_SystemAsFound ==
    LastIsSample =>
        bodies = [i \in 1..Len(last.pre) |->
                    [last.pre[i] EXCEPT !.force = IF last.result = "ValueError"
                                                  THEN last.pre[i].force
                                                  ELSE Zero3]]

\* a returning call entered with forces left by an earlier step
C5_Witness ==
    /\ LastIsSample /\ last.result = "ok"
    /\ Len(last.samples) >= 3
    /\ \E i \in 1..Len(last.pre) : last.pre[i].force # Zero3

\* C6: with duration <= 0 or sample_rate_hz <= 0, sample_positions raises
\* ValueError before any step: no sample, no change of any body, also on a
\* System without bodies.
C6_InvalidArguments ==
    (LastIsSample /\ ~LastArgsPositive) =>
        /\ last.result = "ValueError"
        /\ last.samples = <<>>
        /\ last.grav = <<>>
        /\ bodies = last.pre

\* the call refused on a System without bodies
C6_Witness ==
    /\ LastIsSample /\ ~LastArgsPositive
    /\ last.pre = <<>>
    /\ last.result = "ValueError"

\* C7: on a System with no bodies, sample_positions with positive arguments
\* returns an empty list without raising, and step(dt) changes nothing.
C7_EmptySystem ==
    /\ (LastIsSample /\ LastArgsPositive /\ last.pre = <<>>) =>
            (last.result = "ok" /\ last.samples = <<>> /\ bodies = <<>>)
    /\ (LastIsStep /\ last.pre = <<>>) =>
            (last.result = "ok" /\ bodies = <<>> /\ last.grav = <<>>)

\* the empty list returned
C7_Witness ==
    /\ LastIsSample /\ LastArgsPositive /\ last.pre = <<>>
    /\ last.result = "ok"

\* the index of the first body without mass
FirstZeroMass(bs) == CHOOSE i \in 1..Len(bs) : bs[i].mass = 0 /\ \A j \in 1..(i - 1) : bs[j].mass # 0

\* C8: integrate on a body of mass 0 raises ZeroDivisionError and leaves that
\* body's position and velocity as they were; the error comes out of step and
\* of sample_positions, which then returns no list.
C8_ZeroMassRaises ==
    /\ (LastIsStep /\ HasZeroMass(last.pre)) =>
            /\ last.result = "ZeroDivisionError"
            /\ \A i \in 1..Len(last.pre) :
                    last.pre[i].mass = 0 =>
                        /\ bodies[i].position = last.pre[i].position
                        /\ bodies[i].velocity = last.pre[i].velocity
    /\ (LastIsSample /\ LastArgsPositive /\ HasZeroMass(last.pre)) =>
            /\ last.result = "ZeroDivisionError"
            /\ last.samples = <<>>

\* a step that raised on a later body after it had advanced the first
C8_Witness ==
    /\ LastIsStep /\ last.result = "ZeroDivisionError"
    /\ FirstZeroMass(last.pre) > 1
    /\ bodies[1].position # last.pre[1].position

\* C9, as stated: no returned sample shares mutable state with a live body or
\* with another sample: a later write into a body's position array or into its
\* metadata map, or into a mutable value stored inside that map, leaves every
\* returned sample as it was when it was returned.
C9_AsStated == HoldsSamples => Seen(last.samples, heap) = last.seen

\* C10, as stated: in every _compute_gravity call a body of kind star exchanges
\* force with every other body of the System at nonzero distance from it.
C10_AsStated ==
    \A n \in 1..Len(last.grav) :
        \A s, o \in 1..Len(last.grav[n].bodies) :
            (/\ s # o
             /\ IsStar(last.grav[n].bodies[s])
             /\ last.grav[n].bodies[s].position # last.grav[n].bodies[o].position)
            => \E k \in 1..Len(last.grav[n].applied) :
                    last.grav[n].applied[k] \in {<<s, o>>, <<o, s>>}


\* the unordered pair behind one apply_force_pair call
Unordered(pair) == {pair[1], pair[2]}

\* the _compute_gravity calls of the last operation
GravIndices == 1..Len(last.grav)

\* C11: within one _compute_gravity call each unordered pair of distinct bodies
\* contributes its force at most once, in either order, and no body is paired
\* with itself, for star pairs and for pairs found through the quadtree.
C11_PairsOnce ==
    \A n \in GravIndices :
        \A k \in 1..Len(last.grav[n].applied) :
            /\ last.grav[n].applied[k][1] # last.grav[n].applied[k][2]
            /\ \A l \in 1..Len(last.grav[n].applied) :
                    Unordered(last.grav[n].applied[l]) = Unordered(last.grav[n].applied[k])
                        => l = k

\* a call that applied two star pairs and a pair found through the quadtree
C11_Witness ==
    \E n \in GravIndices :
        /\ Len(stars(last.grav[n].bodies)) = 1
        /\ Len(last.grav[n].applied) = 3


\* the non-star pairs <<i, j>>, i before j in the list, of a body list
NonStarPairs(bs) ==
    {p \in (1..Len(bs)) \X (1..Len(bs)) :
        p[1] < p[2] /\ ~IsStar(bs[p[1]]) /\ ~IsStar(bs[p[2]])}

\* the square of distance_to between the bodies of a pair
SeparationSq(bs, p) == NormSq(VSub(bs[p[2]].position, bs[p[1]].position))

\* a _compute_gravity call added the mutual force of the pair p
Exchanged(g, p) ==
    \E k \in 1..Len(g.applied) : Unordered(g.applied[k]) = Unordered(p)

\* C12, as stated: for every pair of distinct non-star bodies _compute_gravity
\* applies their mutual force if and only if the Euclidean distance d between
\* their positions satisfies 0 < d <= cutoff.
C12_AsStated ==
    \A n \in GravIndices :
        \A p \in NonStarPairs(last.grav[n].bodies) :
            Exchanged(last.grav[n], p)
                <=> /\ 0 < SeparationSq(last.grav[n].bodies, p)
                    /\ SeparationSq(last.grav[n].bodies, p)
                            <= CULL_DISTANCE_AU * CULL_DISTANCE_AU


\* the forces that the pairs of a sequence add up to, on bodies whose forces
\* were reset, one pair force and its negation at a time
RECURSIVE SumOfPairForces(_, _, _)
SumOfPairForces(bs, pairs, k) ==
    IF k > Len(pairs)
    THEN ForcesOf(bs)
    ELSE SumOfPairForces(ApplyBoth(bs, pairs[k], PairForce(bs[pairs[k][1]], bs[pairs[k][2]])),
                         pairs, k + 1)

\* the pairs of distinct bodies of a list that are at the same position
CollocatedPairs(bs) ==
    {p \in (1..Len(bs)) \X (1..Len(bs)) : p[1] < p[2] /\ bs[p[1]].position = bs[p[2]].position}

\* C13: two bodies at the same position (a star and a planet, or two planets)
\* add no force to each other in _compute_gravity: the forces after a step are
\* those of the pairs at nonzero distance alone, every component a number, and
\* the step raises only when a body has no mass.
C13_CollocatedSkipped ==
    /\ \A n \in GravIndices :
            \A p \in CollocatedPairs(last.grav[n].bodies) : ~Exchanged(last.grav[n], p)
    /\ (LastIsStep /\ last.pre # <<>>) =>
            /\ ForcesOf(bodies)
                    = SumOfPairForces(ResetForces(last.pre), last.grav[1].applied, 1)
            /\ ~HasZeroMass(last.pre) => last.result = "ok"

\* a step that returned, on a star with a planet on it and on another body
\* that pulls them
C13_Witness ==
    /\ LastIsStep /\ last.result = "ok"
    /\ \E p \in CollocatedPairs(last.pre) :
            IsStar(last.pre[p[1]]) # IsStar(last.pre[p[2]])
    /\ \E i \in 1..Len(bodies) : bodies[i].force # Zero3


RECURSIVE VSum(_, _)
\* the sum of the first n vectors of a sequence
VSum(vs, n) == IF n = 0 THEN Zero3 ELSE VAdd(VSum(vs, n - 1), vs[n])

\* C14: whenever _compute_gravity applies a force between two bodies, what it
\* adds to one is the negation of what it adds to the other, so that after
\* every _compute_gravity call the accumulated forces of all bodies sum to the
\* zero vector.
C14_EqualAndOpposite ==
    (LastIsStep /\ last.pre # <<>>) => VSum(ForcesOf(bodies), Len(bodies)) = Zero3

\* a step after which three bodies carry forces, none of them zero
C14_Witness ==
    /\ LastIsStep
    /\ Len(bodies) = 3
    /\ \A i \in 1..Len(bodies) : bodies[i].force # Zero3


\* mass * velocity of every body
MomentaOf(bs) ==
    [i \in 1..Len(bs) |->
        <<bs[i].mass * bs[i].velocity[1], bs[i].mass * bs[i].velocity[2],
          bs[i].mass * bs[i].velocity[3]>>]

\* the total momentum of a body list
Momentum(bs) == VSum(MomentaOf(bs), Len(bs))

\* no two bodies of the list are further apart than the cutoff
WithinCutoff(bs) ==
    \A i, j \in 1..Len(bs) :
        SeparationSq(bs, <<i, j>>) <= CULL_DISTANCE_AU * CULL_DISTANCE_AU

\* C15: with the cutoff at least the largest separation of two bodies and all
\* masses positive, step(dt) leaves the total momentum as it was, and so does
\* any number of steps that each start so.
C15_MomentumConserved ==
    (LastIsStep /\ ~HasZeroMass(last.pre) /\ WithinCutoff(last.pre))
        => Momentum(bodies) = Momentum(last.pre)

\* a step in which three bodies, all within the cutoff, changed their velocities
C15_Witness ==
    /\ LastIsStep /\ last.result = "ok"
    /\ Len(last.pre) = 3
    /\ WithinCutoff(last.pre)
    /\ \A i \in 1..Len(bodies) : bodies[i].velocity # last.pre[i].velocity


\* the time step of the last step() call
LastDt == last.args[1]

\* C16: integrate(dt) on a body of nonzero mass sets velocity' = velocity +
\* (force / mass) * dt, then position' = position + velocity' * dt with the
\* updated velocity; it changes neither the accumulated force nor the mass nor
\* anything else of the body, and each body's new state comes from its own
\* old state and force alone.
C16_SemiImplicitEuler ==
    (LastIsStep /\ last.result = "ok") =>
        \A i \in 1..Len(last.pre) :
            /\ bodies[i].velocity
                    = VAdd(last.pre[i].velocity,
                           VMulRat(VDivInt(bodies[i].force, last.pre[i].mass), LastDt))
            /\ bodies[i].position
                    = VAdd(last.pre[i].position, VMulRat(bodies[i].velocity, LastDt))
            /\ bodies[i].force
                    = SumOfPairForces(ResetForces(last.pre), last.grav[1].applied, 1)[i]
            /\ bodies[i] = [last.pre[i] EXCEPT !.velocity = bodies[i].velocity,
                                               !.position = bodies[i].position,
                                               !.force = bodies[i].force]

\* a step in which a body that was moving was accelerated, so that the old and
\* the new velocity lead to different positions
C16_Witness ==
    /\ LastIsStep /\ last.result = "ok"
    /\ \E i \in 1..Len(last.pre) :
            /\ last.pre[i].velocity # Zero3
            /\ bodies[i].velocity # last.pre[i].velocity
            /\ bodies[i].position # VAdd(last.pre[i].position, last.pre[i].velocity)


\* a body list with every accumulated force set to zero
Cleared(bs) == [i \in 1..Len(bs) |-> [bs[i] EXCEPT !.force = Zero3]]

\* C17: _compute_gravity resets every body's force before it applies a pair
\* force, so the forces, positions and velocities after step(dt) are those the
\* same step gives on the same masses, kinds, positions and velocities with no
\* force left over: they do not depend on earlier calls.
C17_NoLeftoverForce ==
    LastIsStep =>
        /\ bodies = step(Cleared(last.pre), LastDt, qtClosed).bodies
        /\ (last.result = "ok") = ~step(Cleared(last.pre), LastDt, qtClosed).raised

\* a second step, entered with forces left by the first and leaving forces
C17_Witness ==
    /\ LastIsStep /\ last.result = "ok"
    /\ stepsTaken = 2
    /\ \E i \in 1..Len(last.pre) : last.pre[i].force # Zero3
    /\ \E i \in 1..Len(bodies) : bodies[i].force # Zero3


\* cutoff distances a caller wants two Systems to cull at; System.__init__
\* takes a name, a gravitational constant and the initial bodies, and no cutoff
ConfiguredCutoffs == {1, 2}

\* the square of the distance of a pair in the xy-plane, which the quadtree
\* loop compares with the cutoff
PlanarSeparationSq(bs, p) ==
    (bs[p[2]].position[1] - bs[p[1]].position[1]) * (bs[p[2]].position[1] - bs[p[1]].position[1])
    + (bs[p[2]].position[2] - bs[p[1]].position[2]) * (bs[p[2]].position[2] - bs[p[1]].position[2])

\* C18, as stated: the cutoff is a configurable parameter of a System: a System
\* built with the cutoff c culls its non-star pairs at c, whatever c is: a pair
\* further apart than c adds no force and a pair closer than c (not on top of
\* each other) adds its force.
C18_AsStated ==
    \A c \in ConfiguredCutoffs :
        \A n \in GravIndices :
            \A p \in NonStarPairs(last.grav[n].bodies) :
                /\ PlanarSeparationSq(last.grav[n].bodies, p) > c * c
                        => ~Exchanged(last.grav[n], p)
                /\ (/\ 0 < PlanarSeparationSq(last.grav[n].bodies, p)
                    /\ PlanarSeparationSq(last.grav[n].bodies, p) < c * c)
                        => Exchanged(last.grav[n], p)


\* samples_for_system returned a value
Responded == response.result = "ok"

\* the names of the bodies of the request in insertion order: the star, then
\* the planets as configured
RequestNames ==
    <<StarName(request.star)>> \o [k \in 1..Len(request.planets) |-> request.planets[k].name]

\* no two bodies of the request have the same name
DistinctNames ==
    \A i, j \in 1..Len(RequestNames) : RequestNames[i] = RequestNames[j] => i = j

\* planetMetadata names the bodies in insertion order, and in every sample the
\* positions row is as long as planetMetadata and holds at index i the (x, y)
\* of the i-th body at that sample
Aligned ==
    /\ [i \in 1..Len(response.planetMetadata) |-> response.planetMetadata[i].name]
            = RequestNames
    /\ \A k \in 1..Len(response.samples) :
            /\ Len(response.samples[k].positions) = Len(response.planetMetadata)
            /\ \A i \in 1..Len(response.planetMetadata) :
                    /\ response.raw[k].bodies[i].name = response.planetMetadata[i].name
                    /\ response.samples[k].positions[i]
                            = <<response.raw[k].bodies[i].position[1],
                                response.raw[k].bodies[i].position[2]>>

\* C19, as stated: in the result of samples_for_system every sample's positions
\* list is as long as planetMetadata, positions[i] is the (x, y) at that sample
\* of the body that planetMetadata[i] names, and both follow the insertion
\* order, the star first and then the planets as configured.
C19_AsStated == Responded => Aligned

\* C19, amended: the same, for a configuration whose bodies, the star with its
\* name "Star" included, have names that differ from each other.
C19_MetadataAligned == (Responded /\ DistinctNames) => Aligned

\* a result for two planets, with four samples in which the positions changed
C19_Witness ==
    /\ Responded /\ DistinctNames
    /\ Len(response.planetMetadata) = 3
    /\ Len(response.samples) = 4
    /\ response.samples[1].positions # response.samples[4].positions


\* _build_initial_bodies has run
Built == bodies # <<>>

\* the ellipticity the claim lets count: 0 when left out, and no less than 0
\* and no more than 0.95
CountedEllipticity(planet) ==
    IF planet.ellipticity = None THEN <<0, 1>>
    ELSE IF planet.ellipticity[1] < 0 THEN <<0, 1>>
    ELSE IF 20 * planet.ellipticity[1] > 19 * planet.ellipticity[2] THEN <<19, 20>>
    ELSE planet.ellipticity

\* the multiplier 1 - 0.5 * e
Multiplier(e) == <<2 * e[2] - e[1], 2 * e[2]>>

\* the velocity at position p around a star of mass m: the radius vector turned
\* by a quarter in the xy-plane, as long as the circular-orbit speed
\* sqrt(G * m / r) times the multiplier s
CircularVelocity(p, r, m, s) ==
    <<TDiv((-p[2]) * ISqrt(TDiv(gravitational_constant * m, r)) * s[1], r * s[2]),
      TDiv(p[1] * ISqrt(TDiv(gravitational_constant * m, r)) * s[1], r * s[2]),
      0>>

\* the star comes first, at the origin and at rest, with mass massMs * STAR_MASS_SCALE
StarFirst ==
    /\ IsStar(bodies[1])
    /\ bodies[1].position = Zero3
    /\ bodies[1].velocity = Zero3
    /\ bodies[1].mass = request.star.massMs * STAR_MASS_SCALE
    /\ \A k \in 1..Len(request.planets) : bodies[k + 1].name = request.planets[k].name

\* the planets of the request that give no velocity
WithoutVelocity == {k \in 1..Len(request.planets) : request.planets[k].velocity = None}

\* the body of planet k moves across its radius vector, with the circular-orbit
\* speed times the multiplier, and the multiplier the code uses is in [0.525, 1]
OrbitsCircularly(k) ==
    /\ bodies[k + 1].position[1] * bodies[k + 1].velocity[1]
            + bodies[k + 1].position[2] * bodies[k + 1].velocity[2] = 0
    /\ bodies[k + 1].velocity
            = CircularVelocity(bodies[k + 1].position, DistXY(bodies[k + 1].position),
                               bodies[1].mass,
                               Multiplier(CountedEllipticity(request.planets[k])))
    /\ ~RatLess(VelocityScale(Clamp(EllipticityOf(request.planets[k]))), <<525, 1000>>)
    /\ ~RatLess(<<1, 1>>, VelocityScale(Clamp(EllipticityOf(request.planets[k]))))

\* C20, as stated: _build_initial_bodies puts the star first, at the origin, at
\* rest and with mass massMs * STAR_MASS_SCALE, and gives every planet without an
\* explicit velocity a velocity across its radius vector in the xy-plane, with
\* the circular-orbit speed times (1 - 0.5 * e), e the ellipticity clamped to
\* [0, 0.95] and 0 when left out, so that the multiplier is in [0.525, 1].
C20_AsStated ==
    Built =>
        /\ StarFirst
        /\ \A k \in WithoutVelocity :
                DistXY(bodies[k + 1].position) > 0 /\ OrbitsCircularly(k)

\* C20, amended: the same for every planet without an explicit velocity whose
\* distance from the star in the xy-plane is not zero; a planet at distance zero
\* in the xy-plane, for which no circular-orbit speed exists, gets the velocity
\* zero.
C20_InitialBodies ==
    Built =>
        /\ StarFirst
        /\ \A k \in WithoutVelocity :
                IF DistXY(bodies[k + 1].position) > 0
                THEN OrbitsCircularly(k)
                ELSE bodies[k + 1].velocity = Zero3

\* bodies built for a planet whose ellipticity is above the clamp and for a
\* planet off the axes, both set moving
C20_Witness ==
    /\ Built
    /\ Len(bodies) = 3
    /\ WithoutVelocity = {1, 2}
    /\ \E k \in WithoutVelocity :
            /\ RatLess(MaxEllipticity, EllipticityOf(request.planets[k]))
            /\ bodies[k + 1].velocity # Zero3
    /\ \E k \in WithoutVelocity :
            bodies[k + 1].velocity[1] # 0 /\ bodies[k + 1].velocity[2] # 0


---------------------------------------------------------------------------
(* C21 *)

\* the planet of the orbit: the body after the star
OrbitPlanet(bs) == bs[2]

\* the square of the planet's distance from where _build_initial_bodies put it
FromStartSq ==
    NormSq(VSub(OrbitPlanet(bodies).position,
                OrbitPlanet(build_initial_bodies(request)).position))

\* a tenth of an AU, far more than a small tolerance
OrbitTolerance == OrbitAU \div 10

\* one Kepler period has been simulated
PeriodSimulated == bodies # <<>> /\ stepsTaken = OrbitSteps

\* C21: one star with massMs = 1.0 and one planet at aAU = 1.0 with the default
\* circular velocity: after simulating one Kepler period T_days = 365.25 *
\* aAU^1.5 the planet is back within a small tolerance of its starting position
C21_AsStated ==
    PeriodSimulated => FromStartSq <= OrbitTolerance * OrbitTolerance


---------------------------------------------------------------------------
(* C22 *)

\* the last call was period_days(aAU) with aAU > 0
PeriodCalled == call.op = "period_days" /\ call.args[1] > 0

\* the axis of the call is k * k hundredths of an AU, so aAU ** 1.5 is exactly
\* k * k * k thousandths
IsSquareOf(aAU, k) == k * k = aAU

\* 365.25 * aAU ** 1.5 for aAU = k * k hundredths, in hundredths of a day
KeplerOfRoot(k) == (YearCentiDays * k * k * k) \div 1000

\* C22: period_days(aAU) follows Kepler's third law with a solar-mass star: it
\* returns 365.25 * aAU^1.5, period_days(1.0) is within 1% of 365.25, and
\* period_days is strictly increasing in aAU for aAU > 0
C22_KeplerThirdLaw ==
    PeriodCalled =>
        /\ \A k \in 1..(MaxAxisRoot + 1) :
               IsSquareOf(call.args[1], k) => call.result = KeplerOfRoot(k)
        /\ call.args[1] = OneAU =>
               /\ 100 * (call.result - YearCentiDays) < YearCentiDays
               /\ 100 * (YearCentiDays - call.result) < YearCentiDays
        /\ \A other \in SemiMajorAxes :
               /\ other > call.args[1] => period_days(other) > call.result
               /\ (0 < other /\ other < call.args[1]) => period_days(other) < call.result

\* period_days(4.0) was called: eight years
C22_Witness ==
    /\ PeriodCalled
    /\ call.args[1] = 4 * OneAU
    /\ call.result = 8 * YearCentiDays


---------------------------------------------------------------------------
(* C23 *)

\* the last call was a_to_midi(a_au)
MidiCalled == call.op = "a_to_midi"

\* C23: a_to_midi is monotonically non-decreasing in the semi-major axis (for
\* a1 <= a2, a_to_midi(a1) <= a_to_midi(a2)), and for every input its result
\* lies within NOTE_RANGE, 48 to 72 inclusive
C23_MonotonicInRange ==
    MidiCalled =>
        /\ call.result \in 48..72
        /\ \A other \in SemiMajorAxes :
               /\ call.args[1] <= other => call.result <= a_to_midi(other)
               /\ other <= call.args[1] => a_to_midi(other) <= call.result

\* a_to_midi(1.0) was called and gave 58, above the note of a smaller axis and
\* below that of a larger one
C23_Witness ==
    /\ MidiCalled
    /\ call.args[1] = OneAU
    /\ call.result = 58
    /\ a_to_midi(OneAU \div 4) < 58
    /\ a_to_midi(4 * OneAU) > 58


---------------------------------------------------------------------------
(* C24 *)

\* the Sun and A, and what a first step(1) makes of them
SunAndA == SystemOf({1, 2})

AfterFirstStep == step(SunAndA, <<1, 1>>, FALSE).bodies

\* C24: sampling does not disturb the live trajectory: with successful or
\* failing sample_positions calls anywhere between the step(dt) calls, every
\* body has after each step the position and the velocity that the same steps
\* give it without any sample_positions call
C24_TrajectoryUndisturbed ==
    LastIsStep =>
        /\ PositionsOf(bodies) = PositionsOf(unsampled)
        /\ VelocitiesOf(bodies) = VelocitiesOf(unsampled)

\* the second step of the Sun and A was made from the bodies the first step
\* left, with the force of that step cleared: a sample_positions call that
\* stepped the System came between the two
C24_Witness ==
    /\ LastIsStep
    /\ stepsTaken = 2
    /\ last.result = "ok"
    /\ PositionsOf(last.pre) = PositionsOf(AfterFirstStep)
    /\ VelocitiesOf(last.pre) = VelocitiesOf(AfterFirstStep)
    /\ ForcesOf(AfterFirstStep) # ZeroForces(AfterFirstStep)
    /\ ForcesOf(last.pre) = ZeroForces(last.pre)
    /\ PositionsOf(bodies) # PositionsOf(last.pre)
    /\ PositionsOf(bodies) = PositionsOf(unsampled)


---------------------------------------------------------------------------
(* C25 *)

\* a direct step(dt) call raised
StepRaised == LastIsStep /\ last.result = "ZeroDivisionError"

\* the bodies with the gravity of the positions the step found
NewGravity == compute_gravity(last.pre, qtClosed).bodies

\* body j moved by dt under its new force: velocity first, then position
AdvancedByDt(j) ==
    /\ bodies[j].velocity =
           VAdd(last.pre[j].velocity,
                VMulRat(VDivInt(NewGravity[j].force, last.pre[j].mass), LastDt))
    /\ bodies[j].position =
           VAdd(last.pre[j].position, VMulRat(bodies[j].velocity, LastDt))

\* body j is where it was and as fast as it was
Untouched(j) ==
    /\ bodies[j].position = last.pre[j].position
    /\ bodies[j].velocity = last.pre[j].velocity

\* C25: step(dt) called directly is not atomic on failure: when it raises
\* because the body at insertion index i has zero mass, every body at an index
\* below i has already been advanced by dt, the bodies at index i and above
\* keep their position and velocity, and every body's accumulated force holds
\* the newly computed gravity; nothing is rolled back
C25_PartialStep ==
    StepRaised =>
        /\ HasZeroMass(last.pre)
        /\ \A j \in 1..Len(bodies) :
               /\ j < FirstZeroMass(last.pre) => AdvancedByDt(j)
               /\ j >= FirstZeroMass(last.pre) => Untouched(j)
               /\ bodies[j].force = NewGravity[j].force

\* a step raised at the third body: the second has moved under a force that is
\* not zero and that it still holds, and the massless body has not moved
C25_Witness ==
    /\ StepRaised
    /\ FirstZeroMass(last.pre) = 3
    /\ bodies[2].position # last.pre[2].position
    /\ bodies[2].velocity # last.pre[2].velocity
    /\ bodies[2].force # Zero3
    /\ bodies[2].force # last.pre[2].force
    /\ bodies[3].position = last.pre[3].position


---------------------------------------------------------------------------
(* The events of a system *)

\* events_for_system has returned a list
EventsCalled == call.op = "events_for_system" /\ call.result.raised = "none"

\* the samples of the call as events_for_system inflates them, and their stats
CalledSamples == inflate_samples(call.args[1], call.args[2])

CalledStats == generate_planet_stats(CalledSamples)

\* the names of the planets planet_orbit_events follows
FollowedNames == {Followed(CalledSamples[1])[i].name : i \in 1..Len(Followed(CalledSamples[1]))}

\* the cumulative angle of a followed planet about the star, in eighths of a
\* turn, over the first k samples
AngleAfter(name, k) ==
    OrbitRun(SubSeq(CalledSamples, 1, k), CalledStats).state[name].cumulative_angle

AbsOf(n) == IF n < 0 THEN -n ELSE n

\* the full turns the cumulative angle of a planet has completed, whichever way
Revolutions(name) ==
    MaxOf({AbsOf(AngleAfter(name, k)) \div FullTurn : k \in 1..Len(CalledSamples)})

\* the note_on and the note_off events returned for a planet
NotesOn(name) ==
    Len(SelectSeq(call.result.events, LAMBDA e : e.type = "note_on" /\ e.planet = name))

NotesOff(name) ==
    Len(SelectSeq(call.result.events, LAMBDA e : e.type = "note_off" /\ e.planet = name))

\* C26: over any sample sequence the number of note_on events for a rocky
\* planet equals the number of full turns its cumulative angle about the star
\* has completed, in either direction of revolution
C26_AsStated ==
    EventsCalled =>
        \A name \in FollowedNames : NotesOn(name) = Revolutions(name)


\* how often an event stands in a list
CountIn(events, e) == Len(SelectSeq(events, LAMBDA x : x = e))

\* the orbit events and the pad events of the call, before they are merged
CalledOrbitEvents == planet_orbit_events(CalledSamples, CalledStats)

CalledPadEvents == velocity_pad_events(CalledSamples, call.args[3], CalledStats)

\* the list holds the events of both lists, each as often as they do
MergedOf(events, orbit_events, pad_events) ==
    /\ Len(events) = Len(orbit_events) + Len(pad_events)
    /\ \A i \in 1..Len(events) :
           CountIn(events, events[i])
               = CountIn(orbit_events, events[i]) + CountIn(pad_events, events[i])

\* t never decreases along the list
NonDecreasingTime(events) ==
    \A i \in 1..(Len(events) - 1) : ~RatLess(events[i + 1].t, events[i].t)

\* C27: events_for_system returns the orbit events and the pad events merged
\* into one list ordered by non-decreasing t, and raises ValueError instead of
\* returning a list when the samples argument is empty
C27_MergedInTimeOrder ==
    call.op = "events_for_system" =>
        /\ call.args[1] = <<>> => call.result.raised = "ValueError"
        /\ call.result.raised = "none" =>
               /\ MergedOf(call.result.events, CalledOrbitEvents, CalledPadEvents)
               /\ NonDecreasingTime(call.result.events)

\* a pad note at t = 0 comes back ahead of the orbit notes that
\* planet_orbit_events listed before it
C27_Witness ==
    /\ EventsCalled
    /\ CalledOrbitEvents # <<>>
    /\ CalledPadEvents # <<>>
    /\ ~NonDecreasingTime(CalledOrbitEvents \o CalledPadEvents)
    /\ call.result.events[1].instrument = "pad"


\* the planets the returned events name
EventPlanets == {call.result.events[i].planet : i \in 1..Len(call.result.events)}

\* a note_off for the planet of the note_on at index i, at a later time
MatchedLater(i) ==
    \E j \in 1..Len(call.result.events) :
        /\ call.result.events[j].type = "note_off"
        /\ call.result.events[j].planet = call.result.events[i].planet
        /\ RatLess(call.result.events[i].t, call.result.events[j].t)

\* C28: in the list returned by events_for_system with duration_sec > 0, every
\* note_on has midi in 0..127 and vel in 1..127 and is matched by a note_off
\* for the same planet at a strictly later time, and every planet has as many
\* note_off events as note_on events
C28_NotesMatched ==
    (EventsCalled /\ RatLess(<<0, 1>>, call.args[3])) =>
        /\ \A i \in 1..Len(call.result.events) :
               call.result.events[i].type = "note_on" =>
                   /\ call.result.events[i].midi \in 0..127
                   /\ call.result.events[i].vel \in 1..127
                   /\ MatchedLater(i)
        /\ \A name \in EventPlanets : NotesOff(name) = NotesOn(name)

\* a mallet note and a pad note are both returned, with a positive duration
C28_Witness ==
    /\ EventsCalled
    /\ RatLess(<<0, 1>>, call.args[3])
    /\ \E i, j \in 1..Len(call.result.events) :
           /\ call.result.events[i].type = "note_on"
           /\ call.result.events[i].instrument = "mallet"
           /\ call.result.events[j].type = "note_on"
           /\ call.result.events[j].instrument = "pad"


---------------------------------------------------------------------------
(* The notes of the orders *)

\* get_note_from_order has been called
NoteCalled == call.op = "get_note_from_order"

\* the note is a C, an E or a G
ChordTone(midi) == (midi % 12) \in {0, 4, 7}

\* the orders a strictly rising stack of chord tones has room for: the C, E
\* and G of MIDI 0..127 are 33 notes
StrictOrders == 32

---------------------------------------------------------------------------
(* The downsampled envelope *)

\* downsample_envelope has been called
EnvelopeCalled == call.op = "downsample_envelope"

\* the points of r from index i on are points of e from index j on, in order
RECURSIVE SubsequenceFrom(_, _, _, _)
SubsequenceFrom(r, i, e, j) ==
    IF i > Len(r) THEN TRUE
    ELSE IF j > Len(e) THEN FALSE
    ELSE IF r[i] = e[j] THEN SubsequenceFrom(r, i + 1, e, j + 1)
    ELSE SubsequenceFrom(r, i, e, j + 1)

\* the input has more points than target_count
OverTarget ==
    /\ ~RatLeqZero(call.args[2])
    /\ Len(call.args[1]) > TargetCount(call.args[2])

\* no earlier point of the input is at the time of its last point
LastTimeOnce ==
    \A i \in 1..(Len(call.args[1]) - 1) :
        ~RatEq(call.args[1][i].t, call.args[1][Len(call.args[1])].t)

====
